---- MODULE Spec2Model ----
(***************************************************************************)
(* Model of the flow scheduler of siliconcompiler/core.py: Chip.run, the   *)
(* parent process, and Chip.runstep, one worker process per entry of the   *)
(* process list, coordinated through the two manager dictionaries          *)
(* active[] and error[] keyed by step + str(index); and of the functions   *)
(* of the Chip object over the flow graph (getsteps, _allpaths, select,    *)
(* score) and over the schema dictionary (get, set, _search).              *)
(***************************************************************************)
EXTENDS Integers, Sequences, FiniteSets, TLC

(***************************************************************************)
(* Bounds of the model.                                                    *)
(***************************************************************************)
\* largest 'nproc' (index fan-out) of a flowgraph step
MaxNproc == 2
\* largest number of worker processes of one run
MaxProcs == 2
\* deepest chain of _allpaths calls the interpreter allows
\* (sys.getrecursionlimit(), scaled down)
RecursionLimit == 6
\* largest value of a metric
MaxValue == 2
\* largest weight of a metric, in halves
MaxWeight == 3
\* largest number of accessor calls made on one schema dictionary
MaxOps == 2
\* largest integer int() and float() are asked to read
MaxInt == 3

\* the step names a flowgraph is declared with, in declaration order
StepNames == <<"a", "b", "c">>

Steps == {StepNames[i] : i \in 1..Len(StepNames)}

Range(s) == {s[i] : i \in 1..Len(s)}

\* position of a step in the flowgraph dictionary
StepPos(step) == CHOOSE i \in 1..Len(StepNames) : StepNames[i] = step

(***************************************************************************)
(* str(index): the decimal representation of a non-negative integer.       *)
(***************************************************************************)
Digit == <<"0", "1", "2", "3", "4", "5", "6", "7", "8", "9">>

RECURSIVE Str(_)
Str(n) == IF n < 10 THEN Digit[n + 1] ELSE Str(n \div 10) \o Digit[(n % 10) + 1]

\* stepstr = step + str(index): the key of a node in active[] and error[]
Key(step, index) == step \o Str(index)

VARIABLES
    flow,       \* cfg['flowgraph']: [steps: the keys in dict order,
                \*                    input: step -> Seq(step), nproc: step -> Nat]
    steplist,   \* cfg['steplist'] as set by the user ([] when unset)
    chiperror,  \* self.error, the tree-wide error flag, when run() is called
    reqmissing, \* TRUE when a parameter required for the mode is unset
    remote,     \* TRUE when cfg['remote']['addr'] is set
    ppc,        \* position of the parent process inside run()
    pcur,       \* loop cursor of the parent process
    exitcode,   \* exit status of run(): -1 while running, 0 normal return, 1 sys.exit(1)
    manager,    \* TRUE once the manager dictionaries exist
    runlist,    \* the local 'steplist' of run(): the steps to launch
    active,     \* manager dict active[]
    error,      \* manager dict error[]
    processes,  \* the list 'processes': <<step, index>> per multiprocessing.Process
    wpc,        \* position of every worker inside runstep()
    wcur,       \* loop cursor of every worker (wait loop, error check)
    wacc,       \* 'pending' / 'halt' accumulator of every worker
    fail,       \* how every worker failed ("none" while it has not)
    manifest,   \* keys of the nodes whose outputs/<design>.pkg.json is written
    gflow,      \* cfg['flowgraph'] of a Chip whose graph functions are called
    metric,     \* cfg['metric'][step][index]['real']: node key -> metric -> value
    weight,     \* cfg['flowgraph'][step]['weight']: step -> metric -> weight
    call,       \* the method called on that Chip ("none" before the call)
    arg,        \* the arguments of the call
    ret,        \* what the call returned, or that it raised
    cfg,        \* chip.cfg, the schema dictionary, of a Chip whose accessors are called
    nops        \* the number of accessor calls made on it

vars == <<flow, steplist, chiperror, reqmissing, remote, ppc, pcur, exitcode,
          manager, runlist, active, error, processes, wpc, wcur, wacc, fail,
          manifest, gflow, metric, weight, call, arg, ret, cfg, nops>>

\* the Chip whose accessors are called
schemavars == <<cfg, nops>>

\* the Chip whose graph functions or accessors are called
apivars == <<gflow, metric, weight, call, arg, ret, schemavars>>

\* what run() and runstep() only read, or do not touch at all
cfgvars == <<flow, steplist, chiperror, reqmissing, remote, apivars>>
parentvars == <<ppc, pcur, exitcode, manager, runlist, processes>>
workervars == <<wpc, wcur, wacc, fail, manifest>>

(***************************************************************************)
(* Flow graphs: every step lists as inputs steps declared before it, in    *)
(* any order without repetition; nproc is at least 1.                      *)
(***************************************************************************)
SeqsNoDup(S) ==
    {<<>>} \cup {<<x>> : x \in S} \cup {q \in {<<x, y>> : x \in S, y \in S} : q[1] # q[2]}

Earlier(step) == {t \in Steps : StepPos(t) < StepPos(step)}

FlowsOver(names) ==
    {f \in [steps : {names},
            input : [Range(names) -> SeqsNoDup(Range(names))],
            nproc : [Range(names) -> 1..MaxNproc]] :
        \A s \in Range(names) : Range(f.input[s]) \subseteq Earlier(s)}

Flows == UNION {FlowsOver(SubSeq(StepNames, 1, n)) : n \in 1..Len(StepNames)}

RECURSIVE SeqsUpTo(_, _)
SeqsUpTo(S, n) ==
    IF n = 0 THEN {<<>>}
    ELSE LET shorter == SeqsUpTo(S, n - 1)
         IN shorter \cup {Append(q, x) : q \in {r \in shorter : Len(r) = n - 1}, x \in S}

(***************************************************************************)
(* getsteps / _allpaths                                                    *)
(***************************************************************************)
\* _allpaths: the 'return' inside the for loop follows the first input only;
\* a chain of calls deeper than the interpreter allows raises RecursionError
RECURSIVE AllPaths(_, _, _)
AllPaths(f, node, path) ==
    IF Len(path) >= RecursionLimit
    THEN [raised |-> TRUE, paths |-> <<>>]
    ELSE IF f.input[node] = <<>>
         THEN [raised |-> FALSE, paths |-> <<path>>]
         ELSE AllPaths(f, f.input[node][1], Append(path, f.input[node][1]))

\* depth[step]: the length of the longest path returned by _allpaths
Depth(f, step) ==
    LET paths == AllPaths(f, step, <<>>).paths
        lens == {Len(paths[i]) : i \in 1..Len(paths)} \cup {0}
    IN CHOOSE d \in lens : \A e \in lens : e <= d

\* getsteps() ends on the RecursionError of one of its _allpaths calls
getstepsRaises(f) == \E i \in 1..Len(f.steps) : AllPaths(f, f.steps[i], <<>>).raised

\* the steps of depth d, in dictionary order
RECURSIVE StepsAtDepth(_, _, _)
StepsAtDepth(f, d, i) ==
    IF i > Len(f.steps) THEN <<>>
    ELSE (IF Depth(f, f.steps[i]) = d THEN <<f.steps[i]>> ELSE <<>>)
         \o StepsAtDepth(f, d, i + 1)

\* sorted(depth.items(), key=depth): stable sort by ascending depth
RECURSIVE SortByDepth(_, _)
SortByDepth(f, d) ==
    IF d > Len(f.steps) THEN <<>>
    ELSE StepsAtDepth(f, d, 1) \o SortByDepth(f, d + 1)

getsteps(f) == SortByDepth(f, 0)

\* mutant: the unset requirements are logged but not flagged
checkIgnoresMissing(err, missing) == err

(***************************************************************************)
(* check(): returns self.error after flagging every unset requirement      *)
(***************************************************************************)
check(err, missing) == IF missing THEN 1 ELSE err

(***************************************************************************)
(* Helpers of run()                                                        *)
(***************************************************************************)
\* mutant: only index 0 of every step is visited
RECURSIVE NodesFromIndexZero(_, _, _)
NodesFromIndexZero(f, steps, i) ==
    IF i > Len(steps) THEN <<>>
    ELSE <<<<steps[i], 0>>>> \o NodesFromIndexZero(f, steps, i + 1)

\* the (step, index) pairs visited by the loops over getkeys('flowgraph')
RECURSIVE NodesFrom(_, _, _)
NodesFrom(f, steps, i) ==
    IF i > Len(steps) THEN <<>>
    ELSE [k \in 1..f.nproc[steps[i]] |-> <<steps[i], k - 1>>] \o NodesFrom(f, steps, i + 1)

AllNodes(f) == NodesFrom(f, f.steps, 1)

\* 'if self.get('steplist')': the user's list, or every step in order
RunList(f, sl) == IF sl # <<>> THEN sl ELSE getsteps(f)

\* mutant: every node starts active, whatever the step list
InitActiveAll(step, rl) == 1

\* initial active flag of a node
InitActive(step, rl) == IF step \in Range(rl) THEN 1 ELSE 0

\* the process list: one Process per step of the list and index
CreateProcs(f, rl) == NodesFrom(f, rl, 1)

\* mutant: the final loop looks at index 0 of every step only
FinalStatusIndexZero(f, err) ==
    IF \E i \in 1..Len(f.steps) : err[Key(f.steps[i], 0)] > 0 THEN 1 ELSE 0

\* the final loop of run(): exit 1 when any error flag is set
FinalStatus(f, err) ==
    IF \E i \in 1..Len(AllNodes(f)) :
          err[Key(AllNodes(f)[i][1], AllNodes(f)[i][2])] > 0
    THEN 1 ELSE 0

(***************************************************************************)
(* Helpers of runstep()                                                    *)
(***************************************************************************)
\* the keys read by the two nested loops over the inputs of a step
RECURSIVE InputKeysFrom(_, _, _)
InputKeysFrom(f, ins, i) ==
    IF i > Len(ins) THEN <<>>
    ELSE [k \in 1..f.nproc[ins[i]] |-> Key(ins[i], k - 1)] \o InputKeysFrom(f, ins, i + 1)

InputKeys(f, step) == InputKeysFrom(f, f.input[step], 1)

\* mutant: the wait loop breaks on every pass
WaitOverAlways(pending) == pending >= 0

\* mutant: the wait loop breaks while inputs are pending
WaitOverInverted(pending) == pending # 0

\* 'if not pending: break'
WaitOver(pending) == pending = 0

\* mutant: one upstream error is tolerated
MustHaltAboveOne(halt) == halt > 1

\* 'if halt:'
MustHalt(halt) == halt # 0

\* mutant: every index of a step writes the entry of index 0
OwnKeyIndexZero(p) == Key(p[1], 0)

\* the key a worker writes: step + str(index)
OwnKey(p) == Key(p[1], p[2])

\* shutil.copytree(..., 'inputs/') raises when 'inputs/' exists: it does from
\* the second input step on; any copy may also fail on the file system
StagingRaises(f, step, ioerror) == ioerror \/ Len(f.input[step]) >= 2

Terminated == {"exited", "crashed", "done"}

Workers == 1..Len(processes)

StepOf(w) == processes[w][1]

\* The processes are started in the order of the step list and run as soon as
\* they are started, so the order of the list adds no interleaving: the list
\* names the steps in declaration order, a step possibly more than once
InDeclarationOrder(sl) ==
    \A i \in 1..Len(sl) : \A j \in 1..Len(sl) : i < j => StepPos(sl[i]) <= StepPos(sl[j])

\* runstep() reads the inputs of the launched steps only: a step that is not
\* launched declares none, and it is the input of a launched step (a step
\* that is neither launched nor read by a launched step only adds an entry
\* that stays at 0 to active[] and error[])
Relevant(f, rl) ==
    \A s \in Range(f.steps) \ Range(rl) :
        /\ f.input[s] = <<>>
        /\ \E t \in Range(rl) : s \in Range(f.input[t])

\* a Chip without flow graph, and no call made on it
NoFlow == [steps |-> <<>>, input |-> <<>>, nproc |-> <<>>]
NoArg == [targets |-> {}, step |-> "", index |-> 0]
NoRet == [raised |-> FALSE, steps |-> <<>>, nodes |-> <<>>, num |-> 0]
NoCfg == <<>>

(***************************************************************************)
(* Initial states                                                          *)
(***************************************************************************)
Init ==
    /\ flow \in Flows
    /\ steplist \in SeqsUpTo(Range(flow.steps), MaxProcs)
    /\ InDeclarationOrder(steplist)
    /\ Len(CreateProcs(flow, RunList(flow, steplist))) <= MaxProcs
    /\ Relevant(flow, RunList(flow, steplist))
    /\ chiperror \in {0, 1}
    /\ reqmissing \in BOOLEAN
    /\ remote \in BOOLEAN
    /\ ppc = "check"
    /\ pcur = 1
    /\ exitcode = -1
    /\ manager = FALSE
    /\ runlist = <<>>
    /\ active = <<>>
    /\ error = <<>>
    /\ processes = <<>>
    /\ wpc = <<>>
    /\ wcur = <<>>
    /\ wacc = <<>>
    /\ fail = <<>>
    /\ manifest = {}
    /\ gflow = NoFlow
    /\ metric = <<>>
    /\ weight = <<>>
    /\ call = "none"
    /\ arg = NoArg
    /\ ret = NoRet
    /\ cfg = NoCfg
    /\ nops = 0

(***************************************************************************)
(* The parent process: run()                                               *)
(***************************************************************************)
\* 'if self.check('run')': sys.exit(1) before anything else
GlobalCheck ==
    /\ ppc = "check"
    /\ IF check(chiperror, reqmissing) # 0
       THEN /\ ppc' = "exit"
            /\ exitcode' = 1
       ELSE /\ ppc' = IF remote THEN "remote" ELSE "setup"
            /\ exitcode' = exitcode
    /\ UNCHANGED <<cfgvars, pcur, manager, runlist, processes, active, error, workervars>>

\* the remote workflow: no local worker, no manager dictionary
RemoteRun ==
    /\ ppc = "remote"
    /\ ppc' = "exit"
    /\ exitcode' = 0
    /\ UNCHANGED <<cfgvars, pcur, manager, runlist, processes, active, error, workervars>>

\* resolve the step list and create the two manager dictionaries
CreateManager ==
    /\ ppc = "setup"
    /\ runlist' = RunList(flow, steplist)
    /\ manager' = TRUE
    /\ active' = <<>>
    /\ error' = <<>>
    /\ ppc' = "init"
    /\ pcur' = 1
    /\ UNCHANGED <<cfgvars, exitcode, processes, workervars>>

\* one iteration of 'Set all procs to active'
InitNode ==
    /\ ppc = "init"
    /\ pcur <= Len(AllNodes(flow))
    /\ LET n == AllNodes(flow)[pcur]
           k == Key(n[1], n[2])
       IN /\ error' = (k :> 0) @@ error
          /\ active' = (k :> InitActive(n[1], runlist)) @@ active
    /\ pcur' = pcur + 1
    /\ UNCHANGED <<cfgvars, ppc, exitcode, manager, runlist, processes, workervars>>

\* 'Create procs'
CreateProcesses ==
    /\ ppc = "init"
    /\ pcur > Len(AllNodes(flow))
    /\ processes' = CreateProcs(flow, runlist)
    /\ wpc' = [w \in 1..Len(processes') |-> "new"]
    /\ wcur' = [w \in 1..Len(processes') |-> 1]
    /\ wacc' = [w \in 1..Len(processes') |-> 0]
    /\ fail' = [w \in 1..Len(processes') |-> "none"]
    /\ ppc' = "start"
    /\ pcur' = 1
    /\ UNCHANGED <<cfgvars, exitcode, manager, runlist, active, error, manifest>>

\* p.start() for the next process of the list
StartProc ==
    /\ ppc = "start"
    /\ pcur <= Len(processes)
    /\ wpc' = [wpc EXCEPT ![pcur] = "poll"]
    /\ pcur' = pcur + 1
    /\ UNCHANGED <<cfgvars, ppc, exitcode, manager, runlist, processes, active, error,
                   wcur, wacc, fail, manifest>>

StartDone ==
    /\ ppc = "start"
    /\ pcur > Len(processes)
    /\ ppc' = "join"
    /\ pcur' = 1
    /\ UNCHANGED <<cfgvars, exitcode, manager, runlist, processes, active, error, workervars>>

\* p.join(): returns once that process has terminated
JoinProc ==
    /\ ppc = "join"
    /\ pcur <= Len(processes)
    /\ wpc[pcur] \in Terminated
    /\ pcur' = pcur + 1
    /\ UNCHANGED <<cfgvars, ppc, exitcode, manager, runlist, processes, active, error, workervars>>

\* 'Make a clean exit if a process failed'
FinalCheck ==
    /\ ppc = "join"
    /\ pcur > Len(processes)
    /\ ppc' = "exit"
    /\ exitcode' = FinalStatus(flow, error)
    /\ UNCHANGED <<cfgvars, pcur, manager, runlist, processes, active, error, workervars>>

Parent ==
    \/ GlobalCheck
    \/ RemoteRun
    \/ CreateManager
    \/ InitNode
    \/ CreateProcesses
    \/ StartProc
    \/ StartDone
    \/ JoinProc
    \/ FinalCheck

(***************************************************************************)
(* A worker process: runstep(step, index, active, error)                   *)
(***************************************************************************)
\* mutant: a failing worker tears down every other worker
FailWithTeardown(w, how) ==
    /\ active' = [active EXCEPT ![OwnKey(processes[w])] = 0]
    /\ wpc' = [v \in DOMAIN wpc |->
                 IF v = w THEN "failing"
                 ELSE IF wpc[v] \in {"exited", "crashed", "done"} THEN wpc[v] ELSE "crashed"]
    /\ fail' = [fail EXCEPT ![w] = how]

\* mutant: a failing worker leaves its active flag set
FailWithKeepsActive(w, how) ==
    /\ active' = active
    /\ wpc' = [wpc EXCEPT ![w] = "failing"]
    /\ fail' = [fail EXCEPT ![w] = how]

\* the failure path: active[key] = 0, then error[key] = 1, then sys.exit(1)
FailWith(w, how) ==
    /\ active' = [active EXCEPT ![OwnKey(processes[w])] = 0]
    /\ wpc' = [wpc EXCEPT ![w] = "failing"]
    /\ fail' = [fail EXCEPT ![w] = how]

\* an exception nobody catches: the process ends, the flags stay
Raise(w) ==
    /\ wpc' = [wpc EXCEPT ![w] = "crashed"]
    /\ fail' = [fail EXCEPT ![w] = "raised"]

Goto(w, where) == wpc' = [wpc EXCEPT ![w] = where]

\* pending = pending + active[input_str]
PollRead(w) ==
    /\ wpc[w] = "poll"
    /\ wcur[w] <= Len(InputKeys(flow, StepOf(w)))
    /\ wacc' = [wacc EXCEPT ![w] = @ + active[InputKeys(flow, StepOf(w))[wcur[w]]]]
    /\ wcur' = [wcur EXCEPT ![w] = @ + 1]
    /\ UNCHANGED <<cfgvars, parentvars, active, error, wpc, fail, manifest>>

\* end of one pass of the wait loop: break, or sleep and poll again
PollEnd(w) ==
    /\ wpc[w] = "poll"
    /\ wcur[w] > Len(InputKeys(flow, StepOf(w)))
    /\ Goto(w, IF WaitOver(wacc[w]) THEN "errchk" ELSE "sleep")
    /\ wcur' = [wcur EXCEPT ![w] = 1]
    /\ wacc' = [wacc EXCEPT ![w] = 0]
    /\ UNCHANGED <<cfgvars, parentvars, active, error, fail, manifest>>

\* time.sleep(0.1)
Sleep(w) ==
    /\ wpc[w] = "sleep"
    /\ Goto(w, "poll")
    /\ UNCHANGED <<cfgvars, parentvars, active, error, wcur, wacc, fail, manifest>>

\* halt = halt + error[input_str]
ErrRead(w) ==
    /\ wpc[w] = "errchk"
    /\ wcur[w] <= Len(InputKeys(flow, StepOf(w)))
    /\ wacc' = [wacc EXCEPT ![w] = @ + error[InputKeys(flow, StepOf(w))[wcur[w]]]]
    /\ wcur' = [wcur EXCEPT ![w] = @ + 1]
    /\ UNCHANGED <<cfgvars, parentvars, active, error, wpc, fail, manifest>>

\* 'if halt:' after the error loop
ErrEnd(w) ==
    /\ wpc[w] = "errchk"
    /\ wcur[w] > Len(InputKeys(flow, StepOf(w)))
    /\ IF MustHalt(wacc[w])
       THEN FailWith(w, "upstream")
       ELSE /\ Goto(w, "staging")
            /\ UNCHANGED <<active, fail>>
    /\ wcur' = [wcur EXCEPT ![w] = 1]
    /\ wacc' = [wacc EXCEPT ![w] = 0]
    /\ UNCHANGED <<cfgvars, parentvars, error, manifest>>

\* mutant: a failing worker exits without recording the error
SetErrorSkipped(w) ==
    /\ wpc[w] = "failing"
    /\ error' = error
    /\ Goto(w, "exited")
    /\ UNCHANGED <<cfgvars, parentvars, active, wcur, wacc, fail, manifest>>

\* mutant: the failing worker writes the active dictionary, with the value 1
SetErrorSwapped(w) ==
    /\ wpc[w] = "failing"
    /\ active' = [active EXCEPT ![OwnKey(processes[w])] = 1]
    /\ Goto(w, "exited")
    /\ UNCHANGED <<cfgvars, parentvars, error, wcur, wacc, fail, manifest>>

\* error[key] = 1; sys.exit(1)
SetError(w) ==
    /\ wpc[w] = "failing"
    /\ error' = [error EXCEPT ![OwnKey(processes[w])] = 1]
    /\ Goto(w, "exited")
    /\ UNCHANGED <<cfgvars, parentvars, active, wcur, wacc, fail, manifest>>

\* build the step directory, collect the sources or copy the upstream outputs
Staging(w) ==
    /\ wpc[w] = "staging"
    /\ \E ioerror \in BOOLEAN :
          IF StagingRaises(flow, StepOf(w), ioerror)
          THEN Raise(w)
          ELSE Goto(w, "setup") /\ UNCHANGED fail
    /\ UNCHANGED <<cfgvars, parentvars, active, error, wcur, wacc, manifest>>

\* load the tool module, setup_tool(), version check
ToolSetup(w) ==
    /\ wpc[w] = "setup"
    /\ \E loaded \in BOOLEAN, vercode \in {0, 1} :
          IF ~loaded \/ vercode > 0
          THEN FailWith(w, "setup")
          ELSE Goto(w, "check") /\ UNCHANGED <<active, fail>>
    /\ UNCHANGED <<cfgvars, parentvars, error, wcur, wacc, manifest>>

\* hash, run.sh, the sc_manifest files, then check(step)
StepCheck(w) ==
    /\ wpc[w] = "check"
    /\ \E err \in {0, 1}, missing \in BOOLEAN, ioerror \in BOOLEAN :
          IF ioerror
          THEN Raise(w) /\ UNCHANGED active
          ELSE IF check(err, missing) # 0
               THEN FailWith(w, "check")
               ELSE Goto(w, "exec") /\ UNCHANGED <<active, fail>>
    /\ UNCHANGED <<cfgvars, parentvars, error, wcur, wacc, manifest>>

\* subprocess.run(cmdstr): a non-zero return code is an error
Executing(w) ==
    /\ wpc[w] = "exec"
    /\ \E returncode \in {0, 1} :
          IF returncode # 0
          THEN FailWith(w, "exec")
          ELSE Goto(w, "post") /\ UNCHANGED <<active, fail>>
    /\ UNCHANGED <<cfgvars, parentvars, error, wcur, wacc, manifest>>

\* post_process(self, step, index)
Postprocessing(w) ==
    /\ wpc[w] = "post"
    /\ \E post_error \in {0, 1}, raised \in BOOLEAN :
          IF raised
          THEN Raise(w) /\ UNCHANGED active
          ELSE IF post_error # 0
               THEN FailWith(w, "post")
               ELSE Goto(w, "save") /\ UNCHANGED <<active, fail>>
    /\ UNCHANGED <<cfgvars, parentvars, error, wcur, wacc, manifest>>

\* mutant: the output manifest is not written
SaveManifestSkipped(w) ==
    /\ wpc[w] = "save"
    /\ Goto(w, "clear")
    /\ UNCHANGED <<cfgvars, parentvars, active, error, wcur, wacc, fail, manifest>>

\* writecfg("outputs/<design>.pkg.json")
SaveManifest(w) ==
    /\ wpc[w] = "save"
    /\ \E ioerror \in BOOLEAN :
          IF ioerror
          THEN Raise(w) /\ UNCHANGED manifest
          ELSE /\ Goto(w, "clear")
               /\ manifest' = manifest \cup {OwnKey(processes[w])}
               /\ UNCHANGED fail
    /\ UNCHANGED <<cfgvars, parentvars, active, error, wcur, wacc>>

\* 'clearing active bit'
ClearActive(w) ==
    /\ wpc[w] = "clear"
    /\ active' = [active EXCEPT ![OwnKey(processes[w])] = 0]
    /\ Goto(w, "done")
    /\ UNCHANGED <<cfgvars, parentvars, error, wcur, wacc, fail, manifest>>

Worker(w) ==
    \/ PollRead(w)
    \/ PollEnd(w)
    \/ Sleep(w)
    \/ ErrRead(w)
    \/ ErrEnd(w)
    \/ SetError(w)
    \/ Staging(w)
    \/ ToolSetup(w)
    \/ StepCheck(w)
    \/ Executing(w)
    \/ Postprocessing(w)
    \/ SaveManifest(w)
    \/ ClearActive(w)

Next ==
    \/ GlobalCheck
    \/ RemoteRun
    \/ CreateManager
    \/ InitNode
    \/ CreateProcesses
    \/ StartProc
    \/ StartDone
    \/ JoinProc
    \/ FinalCheck
    \/ \E w \in Workers : PollRead(w)
    \/ \E w \in Workers : PollEnd(w)
    \/ \E w \in Workers : Sleep(w)
    \/ \E w \in Workers : ErrRead(w)
    \/ \E w \in Workers : ErrEnd(w)
    \/ \E w \in Workers : SetError(w)
    \/ \E w \in Workers : Staging(w)
    \/ \E w \in Workers : ToolSetup(w)
    \/ \E w \in Workers : StepCheck(w)
    \/ \E w \in Workers : Executing(w)
    \/ \E w \in Workers : Postprocessing(w)
    \/ \E w \in Workers : SaveManifest(w)
    \/ \E w \in Workers : ClearActive(w)

Spec == Init /\ [][Next]_vars

FairWorker(i) == i \in Workers /\ Worker(i)

\* the operating system schedules every process that can take a step, and
\* every tool invocation returns
FairSpec == Spec /\ WF_vars(Parent) /\ \A i \in 1..MaxProcs : WF_vars(FairWorker(i))

(***************************************************************************)
(* The graph functions of a Chip: getsteps, nodes_to_execute, score,       *)
(* select, each called once on a Chip whose flow graph, metrics and        *)
(* weights were set beforehand.                                            *)
(***************************************************************************)
GStepNames == <<"A", "B", "C", "D">>

GSteps == Range(GStepNames)

GStepPos(step) == CHOOSE i \in 1..Len(GStepNames) : GStepNames[i] = step

\* the metrics of the schema, in the order of getkeys('metric', 'default', ...)
MetricNames == <<"area", "power">>

\* flow graphs with any edges (cycles and self loops included), one index per step
GFlowsAny ==
    [steps : {GStepNames},
     input : [GSteps -> SeqsNoDup(GSteps)],
     nproc : [GSteps -> {1}]]

\* flow graphs whose steps depend on steps declared before them, any fan-out
GFlowsFanout ==
    {f \in [steps : {GStepNames},
            input : [GSteps -> SeqsNoDup(GSteps)],
            nproc : [GSteps -> 1..MaxNproc]] :
        \A s \in GSteps : \A t \in Range(f.input[s]) : GStepPos(t) < GStepPos(s)}

\* step B reads step A, which has n indices
SelectFlow(n) ==
    [steps |-> <<"A", "B">>,
     input |-> [s \in {"A", "B"} |-> IF s = "B" THEN <<"A">> ELSE <<>>],
     nproc |-> [s \in {"A", "B"} |-> IF s = "A" THEN n ELSE 1]]

\* the keys of the nodes of a flow graph
NodeKeys(f) == UNION {{Key(s, i) : i \in 0..(f.nproc[s] - 1)} : s \in Range(f.steps)}

\* 'weight' dictionaries: a weight for some of the metrics
Weights == UNION {[M -> 1..MaxWeight] : M \in SUBSET Range(MetricNames)}

\* the steps reached from 'todo' over the input edges, 'todo' included
RECURSIVE Upstream(_, _, _)
Upstream(f, todo, seen) ==
    IF todo = {} THEN seen
    ELSE LET s == CHOOSE x \in todo : TRUE
             more == Range(f.input[s]) \ (seen \cup {s})
         IN Upstream(f, (todo \ {s}) \cup more, seen \cup {s})

\* no step depends on itself
Acyclic(f) ==
    \A s \in Range(f.steps) : s \notin Upstream(f, Range(f.input[s]), {})

\* weight of a metric without declared weight: 'value * 1.0', in halves
DefaultWeight == 2

\* mutant: a metric without declared weight does not count
WeightOfDeclaredOnly(wt, m) == IF m \in DOMAIN wt THEN wt[m] ELSE 0

\* the factor score() multiplies the value of metric m with, in halves
WeightOf(wt, m) == IF m \in DOMAIN wt THEN wt[m] ELSE DefaultWeight

\* the loop of score(): score = score + value * weight, in halves
RECURSIVE ScoreFrom(_, _, _, _)
ScoreFrom(vals, wt, i, acc) ==
    IF i > Len(MetricNames) THEN acc
    ELSE ScoreFrom(vals, wt, i + 1, acc + vals[MetricNames[i]] * WeightOf(wt, MetricNames[i]))

score(step, index) == ScoreFrom(metric[Key(step, index)], weight[step], 1, 0)

\* select(step): the input steps and, for all of them, index 0
select(f, step) == <<f.input[step], 0>>

\* mutant: the steps are listed from the last declared to the first
nodes_to_executeReversed(f, targets) ==
    LET steps == SelectSeq(f.steps, LAMBDA s : s \in Upstream(f, targets, {}))
    IN NodesFrom(f, [i \in 1..Len(steps) |-> steps[Len(steps) + 1 - i]], 1)

\* nodes_to_execute: the steps the targets depend on, in declaration order,
\* expanded to one node per index
nodes_to_execute(f, targets) ==
    NodesFrom(f, SelectSeq(f.steps, LAMBDA s : s \in Upstream(f, targets, {})), 1)

\* a Chip that never runs: the state of run() before it is called
SchedIdle ==
    /\ flow = NoFlow
    /\ steplist = <<>>
    /\ chiperror = 0
    /\ reqmissing = FALSE
    /\ remote = FALSE
    /\ ppc = "idle"
    /\ pcur = 1
    /\ exitcode = -1
    /\ manager = FALSE
    /\ runlist = <<>>
    /\ active = <<>>
    /\ error = <<>>
    /\ processes = <<>>
    /\ wpc = <<>>
    /\ wcur = <<>>
    /\ wacc = <<>>
    /\ fail = <<>>
    /\ manifest = {}

schedvars == <<flow, steplist, chiperror, reqmissing, remote, ppc, pcur, exitcode,
               manager, runlist, active, error, processes, wpc, wcur, wacc, fail,
               manifest>>

GraphInit ==
    /\ SchedIdle
    /\ cfg = NoCfg
    /\ nops = 0
    /\ call = "none"
    /\ arg = NoArg
    /\ ret = NoRet
    /\ \/ /\ gflow \in GFlowsAny \cup GFlowsFanout
          /\ metric = [k \in NodeKeys(gflow) |-> [m \in Range(MetricNames) |-> 0]]
          /\ weight = [s \in Range(gflow.steps) |-> <<>>]
       \/ \E n \in 1..MaxNproc :
             /\ gflow = SelectFlow(n)
             /\ \E vals \in [0..(n - 1) -> [Range(MetricNames) -> 0..MaxValue]] :
                    metric = [k \in NodeKeys(gflow) |->
                                 IF \E i \in 0..(n - 1) : k = Key("A", i)
                                 THEN vals[CHOOSE i \in 0..(n - 1) : k = Key("A", i)]
                                 ELSE [m \in Range(MetricNames) |-> 0]]
             /\ \E wt \in Weights :
                    weight = [s \in Range(gflow.steps) |-> IF s = "A" THEN wt ELSE <<>>]

\* steps = chip.getsteps()
CallGetsteps ==
    /\ call = "none"
    /\ call' = "getsteps"
    /\ ret' = IF getstepsRaises(gflow)
              THEN [NoRet EXCEPT !.raised = TRUE]
              ELSE [NoRet EXCEPT !.steps = getsteps(gflow)]
    /\ UNCHANGED <<schedvars, schemavars, gflow, metric, weight, arg>>

\* nodes = chip.nodes_to_execute(targets)
CallNodesToExecute ==
    /\ call = "none"
    /\ Acyclic(gflow)
    /\ \E targets \in SUBSET Range(gflow.steps) \ {{}} :
          /\ arg' = [NoArg EXCEPT !.targets = targets]
          /\ ret' = [NoRet EXCEPT !.nodes = nodes_to_execute(gflow, targets)]
    /\ call' = "nodes_to_execute"
    /\ UNCHANGED <<schedvars, schemavars, gflow, metric, weight>>

\* s = chip.score(step, index)
CallScore ==
    /\ call = "none"
    /\ \E step \in Range(gflow.steps) : \E index \in 0..(gflow.nproc[step] - 1) :
          /\ arg' = [NoArg EXCEPT !.step = step, !.index = index]
          /\ ret' = [NoRet EXCEPT !.num = score(step, index)]
    /\ call' = "score"
    /\ UNCHANGED <<schedvars, schemavars, gflow, metric, weight>>

\* steplist, mindex = chip.select(step), as Staging calls it for a step with inputs
CallSelect ==
    /\ call = "none"
    /\ \E step \in Range(gflow.steps) :
          /\ gflow.input[step] # <<>>
          /\ arg' = [NoArg EXCEPT !.step = step]
          /\ ret' = [NoRet EXCEPT !.steps = select(gflow, step)[1],
                                  !.num = select(gflow, step)[2]]
    /\ call' = "select"
    /\ UNCHANGED <<schedvars, schemavars, gflow, metric, weight>>

GraphNext ==
    \/ CallGetsteps
    \/ CallNodesToExecute
    \/ CallScore
    \/ CallSelect

GraphSpec == GraphInit /\ [][GraphNext]_vars

(***************************************************************************)
(* The schema dictionary and its accessors: get, set, _search.             *)
(*                                                                         *)
(* A Python value is a record: k is its type, s its text when it is a str, *)
(* n its number (an int; a float in tenths; 1 or 0 for True or False),     *)
(* l its items when it is a list.                                          *)
(***************************************************************************)
PyNone == [k |-> "None", s |-> "", n |-> 0, l |-> <<>>]
PyStr(s) == [k |-> "str", s |-> s, n |-> 0, l |-> <<>>]
PyInt(n) == [k |-> "int", s |-> "", n |-> n, l |-> <<>>]
PyFloat(tenths) == [k |-> "float", s |-> "", n |-> tenths, l |-> <<>>]
PyBool(b) == [k |-> "bool", s |-> "", n |-> IF b THEN 1 ELSE 0, l |-> <<>>]
PyList(items) == [k |-> "list", s |-> "", n |-> 0, l |-> items]

\* str(x) of a float, held in tenths
FloatStr(tenths) == Str(tenths \div 10) \o "." \o Str(tenths % 10)

\* str(val)
PyStrOf(v) ==
    CASE v.k = "str" -> v.s
      [] v.k = "int" -> Str(v.n)
      [] v.k = "float" -> FloatStr(v.n)
      [] v.k = "bool" -> (IF v.n = 1 THEN "True" ELSE "False")
      [] OTHER -> "None"

Returned(v) == [raised |-> FALSE, val |-> v]
Raised == [raised |-> TRUE, val |-> PyNone]

\* int(x): ValueError on a text that is no integer, TypeError on None or a list
pyint(v) ==
    CASE v.k \in {"int", "bool"} -> Returned(PyInt(v.n))
      [] v.k = "float" -> Returned(PyInt(v.n \div 10))
      [] v.k = "str" -> (IF \E n \in 0..MaxInt : Str(n) = v.s
                         THEN Returned(PyInt(CHOOSE n \in 0..MaxInt : Str(n) = v.s))
                         ELSE Raised)
      [] OTHER -> Raised

\* float(x)
pyfloat(v) ==
    CASE v.k \in {"int", "bool"} -> Returned(PyFloat(10 * v.n))
      [] v.k = "float" -> Returned(PyFloat(v.n))
      [] v.k = "str" -> (IF \E x \in 0..(10 * MaxInt + 9) : FloatStr(x) = v.s
                         THEN Returned(PyFloat(CHOOSE x \in 0..(10 * MaxInt + 9) : FloatStr(x) = v.s))
                         ELSE IF \E n \in 0..MaxInt : Str(n) = v.s
                              THEN Returned(PyFloat(10 * (CHOOSE n \in 0..MaxInt : Str(n) = v.s)))
                              ELSE Raised)
      [] OTHER -> Raised

\* re.match(r'\[', type), re.search('int', type), re.search('float', type)
IsListType(T) == T \in {"[str]", "[int]", "[float]", "[bool]", "[file]"}
HasInt(T) == T \in {"int", "[int]"}
HasFloat(T) == T \in {"float", "[float]"}

\* the scalar type of the items of a parameter
BaseType(T) ==
    CASE T \in {"str", "[str]", "file", "[file]"} -> "str"
      [] T \in {"int", "[int]"} -> "int"
      [] T \in {"float", "[float]"} -> "float"
      [] OTHER -> "bool"

\* schema_typecheck: the value, or each of its items, satisfies the type of
\* the parameter; a list does not satisfy a scalar type
ItemSatisfies(T, v) ==
    CASE T = "str" -> v.k = "str"
      [] T = "int" -> v.k = "int" \/ (v.k = "str" /\ ~pyint(v).raised)
      [] T = "float" -> v.k \in {"int", "float"} \/ (v.k = "str" /\ ~pyfloat(v).raised)
      [] OTHER -> v.k = "bool" \/ (v.k = "str" /\ v.s \in {"true", "false"})

schema_typecheck(leaf, val) ==
    IF val.k = "list"
    THEN /\ IsListType(leaf.type)
         /\ \A i \in 1..Len(val.l) : ItemSatisfies(BaseType(leaf.type), val.l[i])
    ELSE ItemSatisfies(BaseType(leaf.type), val)

\* a leaf cell of the schema
Leaf(T, defvalue) ==
    [type |-> T, defvalue |-> defvalue, help |-> "text", example |-> "text"]

\* schema_cfg(), with cfg['design']['value'] = design as __init__ sets it
Schema0 ==
    [design |-> ("value" :> PyStr("root")) @@ Leaf("str", PyNone),
     quiet |-> Leaf("bool", PyStr("false")),
     jobid |-> Leaf("int", PyStr("0")),
     steplist |-> Leaf("[str]", PyList(<<>>)),
     flowgraph |->
        [default |->
            [nproc |-> Leaf("int", PyStr("1")),
             input |-> Leaf("[str]", PyList(<<>>)),
             weight |-> [default |-> Leaf("float", PyNone)]]]]

\* the key sequences the accessors are called with: the leaf cells, a key
\* that does not exist, and a key that holds a sub-dictionary
LeafPaths ==
    {<<"design">>, <<"quiet">>, <<"jobid">>, <<"steplist">>,
     <<"flowgraph", "syn", "nproc">>, <<"flowgraph", "place", "nproc">>,
     <<"flowgraph", "syn", "input">>, <<"flowgraph", "syn", "weight", "area">>}

KeyPaths ==
    LeafPaths \cup {<<"nokey">>, <<"flowgraph">>, <<"nokey", "x">>,
                    <<"flowgraph", "syn", "nokey", "x">>}

\* the key sequences getkeys() is called with; none for all the leaf cells
KeyPrefixes ==
    {<<>>, <<"flowgraph">>, <<"flowgraph", "syn">>, <<"flowgraph", "syn", "weight">>,
     <<"steplist">>, <<"nokey">>}

\* the values set() and add() are called with
Values ==
    {PyBool(TRUE), PyBool(FALSE), PyStr("true"), PyStr("syn"), PyInt(MaxInt),
     PyFloat(15), PyList(<<PyStr("syn"), PyStr("place")>>)}

\* cfg[param]['value'] when it is the very object cfg[param]['defvalue'] is:
\* a list 'value' was bound to by line 716 and that was not rebound since
SameAsDefvalue == [k |-> "alias", s |-> "", n |-> 0, l |-> <<>>]

\* cfg[param]['value'], or cfg[param]['defvalue'] where there is no value
Stored(leaf) ==
    IF "value" \notin DOMAIN leaf \/ leaf["value"] = SameAsDefvalue
    THEN leaf.defvalue
    ELSE leaf["value"]

\* the scalar get() returns for the stored value 'selval'
ScalarOf(T, selval) ==
    IF selval = PyNone THEN Returned(PyNone)
    ELSE IF T = "int" THEN pyint(selval)
    ELSE IF T = "float" THEN pyfloat(selval)
    ELSE IF T = "bool" THEN Returned(PyBool(selval = PyStr("true")))
    ELSE Returned(selval)

\* the item get() appends to return_list
ItemOf(T, item) ==
    IF HasInt(T) THEN pyint(item)
    ELSE IF HasFloat(T) THEN pyfloat(item)
    ELSE Returned(item)

\* what _search gives back: the dictionary as it leaves it, whether it set
\* chip.error, whether it raised, the value it returned, and the keys it
\* returned in mode 'getkeys', each as a key sequence of one key
Outcome(d, err, raised, val) ==
    [cfg |-> d, err |-> err, raised |-> raised, val |-> val, keys |-> {}]

\* _search, mode 'get', on the last key
GetLeaf(d, param) ==
    IF param \notin DOMAIN d
    THEN Outcome(d, TRUE, FALSE, PyNone)
    ELSE IF "defvalue" \notin DOMAIN d[param] \/ "type" \notin DOMAIN d[param]
         THEN Outcome(d, FALSE, TRUE, PyNone)
         ELSE LET leaf == d[param]
                  selval == Stored(leaf)
              IN IF IsListType(leaf.type)
                 THEN IF selval.k # "list"
                         \/ \E i \in 1..Len(selval.l) : ItemOf(leaf.type, selval.l[i]).raised
                      THEN Outcome(d, FALSE, TRUE, PyNone)
                      ELSE Outcome(d, FALSE, FALSE,
                                   PyList([i \in 1..Len(selval.l) |->
                                              ItemOf(leaf.type, selval.l[i]).val]))
                 ELSE Outcome(d, FALSE, ScalarOf(leaf.type, selval).raised,
                              ScalarOf(leaf.type, selval).val)

\* _search, mode 'getkeys', on the last key
GetkeysLeaf(d, param) ==
    IF param \notin DOMAIN d
    THEN Outcome(d, TRUE, FALSE, PyNone)
    ELSE [Outcome(d, FALSE, FALSE, PyNone) EXCEPT !.keys = {<<k>> : k \in DOMAIN d[param]}]

\* a variant of Instanced: the new key takes the leaf cells of 'default' and
\* not its sub-dictionaries
InstancedLeavesOnly(d, param) ==
    IF param \in DOMAIN d THEN d
    ELSE IF "defvalue" \in DOMAIN d["default"] THEN (param :> d["default"]) @@ d
    ELSE (param :> [k \in {j \in DOMAIN d["default"] : "defvalue" \in DOMAIN d["default"][j]}
                      |-> d["default"][k]]) @@ d

\* cfg[param] = copy.deepcopy(cfg['default']) when the key is not there
Instanced(d, param) == IF param \in DOMAIN d THEN d ELSE (param :> d["default"]) @@ d

\* cfg[param]['value'] = cfg[param]['defvalue'] when there is no value
WithValue(leaf) ==
    IF "value" \in DOMAIN leaf THEN leaf
    ELSE ("value" :> (IF leaf.defvalue.k = "list" THEN SameAsDefvalue ELSE leaf.defvalue))
            @@ leaf

\* a variant of SetLeaf: a list is assigned to a scalar parameter as it is
SetLeafAssignsList(d, param, val) ==
    IF param \notin DOMAIN d /\ "default" \notin DOMAIN d
    THEN Outcome(d, TRUE, FALSE, PyNone)
    ELSE LET d1 == Instanced(d, param)
         IN IF "type" \notin DOMAIN d1[param]
            THEN Outcome(d1, FALSE, TRUE, PyNone)
            ELSE LET list_type == IsListType(d1[param].type)
                     withvalue == WithValue(d1[param])
                     islist == val.k = "list"
                     newval == IF ~list_type /\ ~islist THEN PyStr(PyStrOf(val))
                               ELSE IF list_type /\ ~islist THEN PyList(<<PyStr(PyStrOf(val))>>)
                               ELSE val
                     err == ~schema_typecheck(withvalue, val) \/ (~list_type /\ islist)
                 IN Outcome([d1 EXCEPT ![param] = [withvalue EXCEPT !["value"] = newval]],
                            err, FALSE, newval)

\* _search, mode 'set', on the last key
SetLeaf(d, param, val) ==
    IF param \notin DOMAIN d /\ "default" \notin DOMAIN d
    THEN Outcome(d, TRUE, FALSE, PyNone)
    ELSE LET d1 == Instanced(d, param)
         IN IF "type" \notin DOMAIN d1[param]
            THEN Outcome(d1, FALSE, TRUE, PyNone)
            ELSE LET list_type == IsListType(d1[param].type)
                     withvalue == WithValue(d1[param])
                     islist == val.k = "list"
                     err == ~schema_typecheck(withvalue, val) \/ (~list_type /\ islist)
                 IN IF ~list_type /\ islist
                    THEN Outcome([d1 EXCEPT ![param] = withvalue], err, FALSE,
                                 Stored(withvalue))
                    ELSE LET newval == IF ~list_type THEN PyStr(PyStrOf(val))
                                       ELSE IF ~islist THEN PyList(<<PyStr(PyStrOf(val))>>)
                                       ELSE val
                         IN Outcome([d1 EXCEPT ![param] =
                                        [withvalue EXCEPT !["value"] = newval]],
                                    err, FALSE, newval)

\* a variant of AddLeaf: a scalar parameter takes the value as set() stores it
AddLeafSetsScalar(d, param, val) ==
    IF param \notin DOMAIN d /\ "default" \notin DOMAIN d
    THEN Outcome(d, TRUE, FALSE, PyNone)
    ELSE LET d1 == Instanced(d, param)
         IN IF "type" \notin DOMAIN d1[param]
            THEN Outcome(d1, FALSE, TRUE, PyNone)
            ELSE LET list_type == IsListType(d1[param].type)
                     withvalue == WithValue(d1[param])
                     old == Stored(withvalue)
                     items == IF val.k = "list" THEN val.l ELSE <<PyStr(PyStrOf(val))>>
                     new == PyList(old.l \o items)
                     err == ~schema_typecheck(withvalue, val)
                 IN IF ~list_type
                    THEN Outcome([d1 EXCEPT ![param] =
                                     [withvalue EXCEPT !["value"] = PyStr(PyStrOf(val))]],
                                 TRUE, FALSE, PyStr(PyStrOf(val)))
                    ELSE IF old.k # "list"
                    THEN Outcome([d1 EXCEPT ![param] = withvalue], err, TRUE, PyNone)
                    ELSE Outcome([d1 EXCEPT ![param] =
                                     IF withvalue["value"] = SameAsDefvalue
                                     THEN [withvalue EXCEPT !["defvalue"] = new]
                                     ELSE [withvalue EXCEPT !["value"] = new]],
                                 err, FALSE, new)

\* _search, mode 'add', on the last key: append() and extend() change the
\* list in place, and with it 'defvalue' where 'value' is the same list
AddLeaf(d, param, val) ==
    IF param \notin DOMAIN d /\ "default" \notin DOMAIN d
    THEN Outcome(d, TRUE, FALSE, PyNone)
    ELSE LET d1 == Instanced(d, param)
         IN IF "type" \notin DOMAIN d1[param]
            THEN Outcome(d1, FALSE, TRUE, PyNone)
            ELSE LET list_type == IsListType(d1[param].type)
                     withvalue == WithValue(d1[param])
                     old == Stored(withvalue)
                     items == IF val.k = "list" THEN val.l ELSE <<PyStr(PyStrOf(val))>>
                     new == PyList(old.l \o items)
                     err == ~schema_typecheck(withvalue, val)
                 IN IF ~list_type
                    THEN Outcome([d1 EXCEPT ![param] = withvalue], TRUE, FALSE, old)
                    ELSE IF old.k # "list"
                    THEN Outcome([d1 EXCEPT ![param] = withvalue], err, TRUE, PyNone)
                    ELSE Outcome([d1 EXCEPT ![param] =
                                     IF withvalue["value"] = SameAsDefvalue
                                     THEN [withvalue EXCEPT !["defvalue"] = new]
                                     ELSE [withvalue EXCEPT !["value"] = new]],
                                 err, FALSE, new)

\* _search: descend along the keys, instancing 'default' on the way
RECURSIVE Search(_, _, _, _)
Search(d, keys, val, mode) ==
    IF Len(keys) = 1
    THEN CASE mode = "set" -> SetLeaf(d, keys[1], val)
           [] mode = "add" -> AddLeaf(d, keys[1], val)
           [] mode = "getkeys" -> GetkeysLeaf(d, keys[1])
           [] OTHER -> GetLeaf(d, keys[1])
    ELSE IF keys[1] \notin DOMAIN d /\ "default" \notin DOMAIN d
         THEN Outcome(d, FALSE, TRUE, PyNone)
         ELSE LET d1 == Instanced(d, keys[1])
                  sub == Search(d1[keys[1]], Tail(keys), val, mode)
              IN [sub EXCEPT !.cfg = [d1 EXCEPT ![keys[1]] = sub.cfg]]

\* the leaf cell a key sequence names, in 'default' where a key is not yet there
RECURSIVE LeafAt(_, _)
LeafAt(d, keys) ==
    LET node == IF keys[1] \in DOMAIN d THEN d[keys[1]] ELSE d["default"]
    IN IF Len(keys) = 1 THEN node ELSE LeafAt(node, Tail(keys))

\* _allkeys: the key sequences of all the leaf cells
RECURSIVE allkeys(_, _)
allkeys(d, keys) ==
    UNION {IF "defvalue" \in DOMAIN d[k]
           THEN {Append(keys, k)}
           ELSE allkeys(d[k], Append(keys, k)) : k \in DOMAIN d}

\* getkeys: list(None) raises where _search found no key
getkeys(d, prefix) ==
    IF Len(prefix) > 0
    THEN LET r == Search(d, prefix, PyNone, "getkeys")
         IN [r EXCEPT !.raised = r.raised \/ r.err, !.keys = r.keys \ {<<"default">>}]
    ELSE [Outcome(d, FALSE, FALSE, PyNone) EXCEPT !.keys = allkeys(d, <<>>)]

\* the state of run() but chip.error
runvars == <<flow, steplist, reqmissing, remote, ppc, pcur, exitcode,
             manager, runlist, active, error, processes, wpc, wcur, wacc, fail,
             manifest>>

graphvars == <<gflow, metric, weight>>

SchemaInit ==
    /\ SchedIdle
    /\ gflow = NoFlow
    /\ metric = <<>>
    /\ weight = <<>>
    /\ cfg = Schema0
    /\ nops = 0
    /\ call = "none"
    /\ arg = [keys |-> <<>>, val |-> PyNone]
    /\ ret = [raised |-> FALSE, val |-> PyNone, keys |-> {}]

\* the effect of one accessor call that gave back r
Effect(mode, keys, val, r) ==
    /\ cfg' = r.cfg
    /\ chiperror' = IF r.err THEN 1 ELSE chiperror
    /\ call' = mode
    /\ arg' = [keys |-> keys, val |-> val]
    /\ ret' = [raised |-> r.raised, val |-> r.val, keys |-> r.keys]
    /\ nops' = nops + 1
    /\ UNCHANGED <<runvars, graphvars>>

Accessed(mode, keys, val) == Effect(mode, keys, val, Search(cfg, keys, val, mode))

\* chip.set(*keys, val)
Set ==
    /\ nops < MaxOps
    /\ \E keys \in KeyPaths, val \in Values : Accessed("set", keys, val)

\* chip.add(*keys, val)
Add ==
    /\ nops < MaxOps
    /\ \E keys \in KeyPaths, val \in Values : Accessed("add", keys, val)

\* chip.get(*keys)
Get ==
    /\ nops < MaxOps
    /\ \E keys \in KeyPaths : Accessed("get", keys, PyNone)

\* chip.getkeys(*keys)
Getkeys ==
    /\ nops < MaxOps
    /\ \E keys \in KeyPrefixes : Effect("getkeys", keys, PyNone, getkeys(cfg, keys))

SchemaNext ==
    \/ Set
    \/ Add
    \/ Get
    \/ Getkeys

SchemaSpec == SchemaInit /\ [][SchemaNext]_vars

(***************************************************************************)
(* merge and prune, applied to dictionaries of the schema and to           *)
(* dictionaries nested MaxDepth deep                                       *)
(***************************************************************************)

\* the empty values of prune: "null", None and []
InEmpty(v) == v \in {PyStr("null"), PyNone, PyList(<<>>)}

\* del localcfg[k][field]
Without(d, field) == [k \in DOMAIN d \ {field} |-> d[k]]

\* one run of the for loop of prune over the keys of a dictionary; the
\* call with top=False on a sub-dictionary is one such run
RECURSIVE PrunePass(_)
PrunePass(d) ==
    LET Deleted(k) ==
            \/ k = "default"
            \/ /\ "help" \notin DOMAIN d[k]
               /\ "example" \notin DOMAIN d[k]
               /\ IF "defvalue" \in DOMAIN d[k]
                  THEN InEmpty(d[k].defvalue) /\ InEmpty(Stored(d[k]))
                  ELSE DOMAIN d[k] = {}
        After(k) ==
            IF "help" \in DOMAIN d[k] THEN Without(d[k], "help")
            ELSE IF "example" \in DOMAIN d[k] THEN Without(d[k], "example")
            ELSE IF "defvalue" \in DOMAIN d[k] THEN d[k]
            ELSE PrunePass(d[k])
    IN [k \in {j \in DOMAIN d : ~Deleted(j)} |-> After(k)]

\* the number of runs of the loop at the top of the tree
maxdepth == 10

RECURSIVE PrunePasses(_, _)
PrunePasses(d, i) == IF i = 0 THEN d ELSE PrunePasses(PrunePass(d), i - 1)

\* chip.prune(cfg): at the top the dictionary that is pruned is a copy of
\* chip.cfg, whatever dictionary the call names
prune(named, chipcfg) == PrunePasses(chipcfg, maxdepth)

\* the loop of merge over the key sequences of cfg2 that are still to do
RECURSIVE MergeFrom(_, _, _, _)
MergeFrom(localcfg, cfg2, todo, err) ==
    IF todo = {}
    THEN [cfg |-> localcfg, overlay |-> cfg2, err |-> err, raised |-> FALSE]
    ELSE LET keylist == CHOOSE keys \in todo : TRUE
             got == Search(cfg2, keylist, PyNone, "get")
             mode == IF IsListType(LeafAt(cfg2, keylist).type) THEN "add" ELSE "set"
             put == Search(localcfg, keylist, got.val, mode)
         IN IF got.raised
            THEN [cfg |-> localcfg, overlay |-> got.cfg, err |-> err \/ got.err,
                  raised |-> TRUE]
            ELSE IF put.raised
            THEN [cfg |-> put.cfg, overlay |-> got.cfg, err |-> err \/ got.err \/ put.err,
                  raised |-> TRUE]
            ELSE MergeFrom(put.cfg, got.cfg, todo \ {keylist}, err \/ got.err \/ put.err)

\* chip.merge(cfg1, cfg2)
merge(cfg1, cfg2) ==
    MergeFrom(cfg1, cfg2, {keys \in allkeys(cfg2, <<>>) : "default" \notin Range(keys)}, FALSE)

\* the nesting depth of the deepest dictionary
MaxDepth == 9

\* a leaf cell under n keys
RECURSIVE Chain(_, _)
Chain(n, leaf) == IF n = 1 THEN [param |-> leaf] ELSE [sub |-> Chain(n - 1, leaf)]

\* the dictionary of a new Chip, and the dictionaries one set() or add()
\* makes of it
SchemaTrees ==
    {Schema0} \cup {Search(Schema0, keys, val, mode).cfg :
                       keys \in LeafPaths, val \in Values, mode \in {"set", "add"}}

ChainTrees ==
    {Chain(n, leaf) : n \in 1..MaxDepth,
                      leaf \in {Leaf("str", PyNone),
                                ("value" :> PyStr("root")) @@ Leaf("str", PyNone),
                                ("value" :> PyList(<<PyStr("syn")>>))
                                    @@ Leaf("[str]", PyList(<<>>))}}

Trees == SchemaTrees \cup ChainTrees

\* the dictionaries merged into the dictionary of the chip
Overlays ==
    {Search(Schema0, <<"steplist">>, PyStr("place"), "set").cfg,
     Search(Schema0, <<"flowgraph", "syn", "nproc">>, PyInt(MaxInt), "set").cfg,
     Search(Schema0, <<"quiet">>, PyStr("true"), "set").cfg}

NoTrees == [base |-> NoCfg, overlay |-> NoCfg]
NoTree == [raised |-> FALSE, tree |-> NoCfg, overlay |-> NoCfg]

TreeInit ==
    /\ SchedIdle
    /\ gflow = NoFlow
    /\ metric = <<>>
    /\ weight = <<>>
    /\ cfg \in Trees
    /\ nops = 0
    /\ call = "none"
    /\ arg = NoTrees
    /\ ret = NoTree

\* the dictionaries at hand: the one of the chip, and the one the last call
\* returned
AtHand == {cfg} \cup (IF call = "none" \/ ret.raised THEN {} ELSE {ret.tree})

\* chip.merge(chip.cfg, overlay)
CallMerge ==
    /\ nops < MaxOps
    /\ \E overlay \in {cfg} \cup Overlays :
          LET r == merge(cfg, overlay)
          IN /\ call' = "merge"
             /\ arg' = [base |-> cfg, overlay |-> overlay]
             /\ ret' = [raised |-> r.raised,
                        tree |-> IF r.raised THEN NoCfg ELSE r.cfg,
                        overlay |-> r.overlay]
             /\ chiperror' = IF r.err THEN 1 ELSE chiperror
    /\ nops' = nops + 1
    /\ UNCHANGED <<cfg, runvars, graphvars>>

\* chip.prune(t)
CallPrune ==
    /\ nops < MaxOps
    /\ \E named \in AtHand :
          /\ call' = "prune"
          /\ arg' = [base |-> named, overlay |-> NoCfg]
          /\ ret' = [raised |-> FALSE, tree |-> prune(named, cfg), overlay |-> NoCfg]
    /\ nops' = nops + 1
    /\ UNCHANGED <<cfg, chiperror, runvars, graphvars>>

\* json.dumps into the file and json.load from it: a list that 'value' and
\* 'defvalue' share is written twice and comes back as two lists
RECURSIVE Json(_)
Json(d) ==
    [k \in DOMAIN d |->
        IF "defvalue" \notin DOMAIN d[k] THEN Json(d[k])
        ELSE IF "value" \in DOMAIN d[k] /\ d[k]["value"] = SameAsDefvalue
             THEN [d[k] EXCEPT !["value"] = d[k].defvalue]
             ELSE d[k]]

\* writecfg to a .json file: what json.load gives for the file
writecfg(named, chipcfg, pruned) ==
    Json(IF pruned THEN prune(named, chipcfg) ELSE named)

\* readcfg of a .json file: self.merge(chip, cfg, localcfg, strict=False) is
\* a call merge(self, cfg1, cfg2, path=None) has no parameter 'strict' for,
\* and raises TypeError
readcfg(chipcfg, file, merged) ==
    IF merged
    THEN [raised |-> TRUE, cfg |-> chipcfg, localcfg |-> NoCfg]
    ELSE [raised |-> FALSE, cfg |-> chipcfg, localcfg |-> file]

\* chip.writecfg(filename, prune=pruned): ret.tree is the file
CallWritecfg ==
    /\ nops < MaxOps
    /\ \E pruned \in BOOLEAN :
          /\ call' = "writecfg"
          /\ arg' = [base |-> cfg, overlay |-> NoCfg]
          /\ ret' = [raised |-> FALSE, tree |-> writecfg(cfg, cfg, pruned),
                     overlay |-> NoCfg]
    /\ nops' = nops + 1
    /\ UNCHANGED <<cfg, chiperror, runvars, graphvars>>

\* Chip(design).readcfg(filename, merge=merged) on the file just written:
\* ret.tree is the dictionary of the new chip after the call, ret.overlay
\* the dictionary readcfg returned
CallReadcfg ==
    /\ nops < MaxOps
    /\ call = "writecfg"
    /\ \E merged \in BOOLEAN :
          LET r == readcfg(Schema0, ret.tree, merged)
          IN /\ call' = "readcfg"
             /\ arg' = [base |-> ret.tree, overlay |-> NoCfg]
             /\ ret' = [raised |-> r.raised, tree |-> r.cfg, overlay |-> r.localcfg]
    /\ nops' = nops + 1
    /\ UNCHANGED <<cfg, chiperror, runvars, graphvars>>

TreeNext ==
    \/ CallMerge
    \/ CallPrune
    \/ CallWritecfg
    \/ CallReadcfg

TreeSpec == TreeInit /\ [][TreeNext]_vars

(***************************************************************************)
(* hash, on a dictionary with the parameter 'hashmode' and two file        *)
(* parameters                                                              *)
(***************************************************************************)
HashModes == {"off", "selective", "all"}

Files == {"a.v", "b.v"}

FileLists == {<<>>, <<PyStr("a.v")>>, <<PyStr("a.v"), PyStr("b.v")>>}

FileParams == {<<"source">>, <<"constraint">>}

\* a leaf cell of a file parameter: the files, and the list of their hashes
FileLeaf(files) ==
    ("value" :> PyList(files)) @@ ("filehash" :> PyList(<<>>))
        @@ Leaf("[file]", PyList(<<>>))

HashSchema(mode, source, constraint) ==
    [hashmode |-> ("value" :> PyStr(mode)) @@ Leaf("str", PyStr("off")),
     source |-> FileLeaf(source),
     constraint |-> FileLeaf(constraint)]

\* chip.hash(step): the mode is read and logged; for a key sequence with the
\* key 'filehash' the files are read, and set() is then called with the one
\* argument [keylist, []], a list, which 'param in cfg' cannot look up
hash(d, step) ==
    LET hashmode == Search(d, <<"hashmode">>, PyNone, "get")
        hashed == {keylist \in allkeys(hashmode.cfg, <<>>) : "filehash" \in Range(keylist)}
    IN IF hashmode.raised \/ hashed = {}
       THEN hashmode
       ELSE LET filelist == Search(hashmode.cfg, CHOOSE keylist \in hashed : TRUE,
                                   PyNone, "get")
            IN Outcome(filelist.cfg, hashmode.err \/ filelist.err, TRUE, PyNone)

HashInit ==
    /\ SchedIdle
    /\ gflow = NoFlow
    /\ metric = <<>>
    /\ weight = <<>>
    /\ \E mode \in HashModes, source \in FileLists, constraint \in FileLists :
          cfg = HashSchema(mode, source, constraint)
    /\ nops = 0
    /\ call = "none"
    /\ arg \in [step : {"syn"}, touched : SUBSET FileParams, exists : SUBSET Files]
    /\ ret = [raised |-> FALSE]

\* chip.hash(step), as runstep calls it for the step of the node; the
\* parameters the node has touched and the files that exist stay as they are
Hash ==
    /\ nops < MaxOps
    /\ LET r == hash(cfg, arg.step)
       IN /\ cfg' = r.cfg
          /\ chiperror' = IF r.err THEN 1 ELSE chiperror
          /\ ret' = [raised |-> r.raised]
    /\ call' = "hash"
    /\ nops' = nops + 1
    /\ UNCHANGED <<arg, runvars, graphvars>>

HashNext == Hash

HashSpec == HashInit /\ [][HashNext]_vars

(***************************************************************************)
(* The keys of the two manager dictionaries: run() up to 'Create procs' on *)
(* flow graphs whose step names are any strings and whose steps have up to *)
(* MaxKeyNproc indices                                                     *)
(***************************************************************************)
\* largest 'nproc' of a step of these flow graphs
MaxKeyNproc == 11

\* step names, some of them ending in a digit
KeyStepNames == {"a", "a1", "b", "b2"}

\* two steps, the second one reading the first one or nothing
KeyFlows ==
    UNION {{[steps |-> <<x, y>>,
             input |-> (x :> <<>>) @@ (y :> IF reads THEN <<x>> ELSE <<>>),
             nproc |-> (x :> n) @@ (y :> m)] :
               y \in KeyStepNames \ {x}, reads \in BOOLEAN,
               n \in 1..MaxKeyNproc, m \in 1..MaxKeyNproc} : x \in KeyStepNames}

KeyInit ==
    /\ flow \in KeyFlows
    /\ steplist = <<>>
    /\ chiperror = 0
    /\ reqmissing = FALSE
    /\ remote = FALSE
    /\ ppc = "setup"
    /\ pcur = 1
    /\ exitcode = -1
    /\ manager = FALSE
    /\ runlist = <<>>
    /\ active = <<>>
    /\ error = <<>>
    /\ processes = <<>>
    /\ wpc = <<>>
    /\ wcur = <<>>
    /\ wacc = <<>>
    /\ fail = <<>>
    /\ manifest = {}
    /\ gflow = NoFlow
    /\ metric = <<>>
    /\ weight = <<>>
    /\ call = "none"
    /\ arg = NoArg
    /\ ret = NoRet
    /\ cfg = NoCfg
    /\ nops = 0

KeyNext == CreateManager \/ InitNode \/ CreateProcesses

KeySpec == KeyInit /\ [][KeyNext]_vars

(***************************************************************************)
(* Vocabulary of the properties                                            *)
(***************************************************************************)
NodeKey(w) == Key(processes[w][1], processes[w][2])

UpstreamKeys(w) ==
    UNION {{Key(s, i) : i \in 0..(flow.nproc[s] - 1)} : s \in Range(flow.input[processes[w][1]])}

\* the worker is still in, or before, its wait loop
InWait(w) == wpc[w] \in {"new", "poll", "sleep"}

\* the worker halted on an upstream error
HaltedOnUpstream(w) == wpc[w] \in {"failing", "exited"} /\ fail[w] = "upstream"

\* the worker has begun Staging (and possibly more)
BeganStaging(w) == ~InWait(w) /\ wpc[w] # "errchk" /\ ~HaltedOnUpstream(w)

WorkersStarted == manager /\ ppc \in {"start", "join", "exit"}

Launched(step) == step \in Range(runlist)

\* the steps a step depends on, directly or not, and itself
RECURSIVE ConeFrom(_, _)
ConeFrom(todo, seen) ==
    IF todo = {} THEN seen
    ELSE LET s == CHOOSE x \in todo : TRUE
             more == Range(flow.input[s]) \ (seen \cup {s})
         IN ConeFrom((todo \ {s}) \cup more, seen \cup {s})

Cone(step) == ConeFrom({step}, {})

(***************************************************************************)
(* C1: whenever the error flag of an upstream node of a worker is set, the *)
(* worker has not begun Staging (it halts instead, performing none of      *)
(* Staging, ToolSetup, Executing, Postprocessing) -- as claimed; the two   *)
(* writes of a failing upstream node are not atomic, so this fails.        *)
(***************************************************************************)
C1_UpstreamFailureHaltsNode ==
    \A w \in Workers :
        (\E k \in UpstreamKeys(w) : error[k] = 1) => ~BeganStaging(w)

(***************************************************************************)
(* C2: a worker that has left its wait loop sees the active flag of every  *)
(* index of every input step at 0.                                         *)
(***************************************************************************)
C2_NoStagingWhileInputActive ==
    \A w \in Workers : ~InWait(w) => \A k \in UpstreamKeys(w) : active[k] = 0

\* a worker whose input step was launched has left the wait and is staging
C2_Witness ==
    \E w \in Workers :
        /\ wpc[w] = "staging"
        /\ flow.input[processes[w][1]] # <<>>
        /\ \A s \in Range(flow.input[processes[w][1]]) : Launched(s)

(***************************************************************************)
(* C3 as claimed: run() has exited with a non-zero status if and only if   *)
(* the error flag of some node is set.                                     *)
(***************************************************************************)
C3_FailureIffNodeError ==
    ppc = "exit" => (exitcode = 1 <=> \E k \in DOMAIN error : error[k] = 1)

(***************************************************************************)
(* C3 amended: when the global check has passed, run() exits with a        *)
(* non-zero status if and only if the error flag of some node is set, and  *)
(* it has exited only when every worker process has terminated.            *)
(***************************************************************************)
C3_FailureIffNodeErrorAfterCheck ==
    (ppc = "exit" /\ chiperror = 0 /\ ~reqmissing) =>
        /\ exitcode = 1 <=> \E k \in DOMAIN error : error[k] = 1
        /\ \A w \in Workers : wpc[w] \in Terminated

\* a run that failed after the join: index 1 of a step failed, index 0 did not
C3_Witness ==
    /\ ppc = "exit"
    /\ exitcode = 1
    /\ \E w \in Workers : processes[w][2] = 1 /\ wpc[w] = "exited"
    /\ \E w \in Workers : wpc[w] = "done"

(***************************************************************************)
(* C4: when the tree-wide error flag is set or a required parameter is     *)
(* unset, run() creates no manager dictionary and no process, and its exit *)
(* status is 1.                                                            *)
(***************************************************************************)
C4_GlobalCheckFailsFast ==
    (chiperror = 1 \/ reqmissing) =>
        /\ ~manager
        /\ processes = <<>>
        /\ active = <<>> /\ error = <<>>
        /\ ppc \in {"check", "exit"}
        /\ ppc = "exit" => exitcode = 1

\* run() has exited with status 1 on an unset requirement alone
C4_Witness == ppc = "exit" /\ exitcode = 1 /\ reqmissing /\ chiperror = 0

(***************************************************************************)
(* C5: when the first worker is about to be started every node has error   *)
(* flag 0 and active flag 1 exactly when its step is launched; and a       *)
(* worker none of whose input steps is launched never sleeps in its wait.  *)
(***************************************************************************)
C5_InitialFlags ==
    /\ (ppc = "start" /\ pcur = 1) =>
          \A i \in 1..Len(AllNodes(flow)) :
              LET n == AllNodes(flow)[i]
              IN /\ error[Key(n[1], n[2])] = 0
                 /\ active[Key(n[1], n[2])] = 1 <=> Launched(n[1])
    /\ \A w \in Workers :
          (\A s \in Range(flow.input[processes[w][1]]) : ~Launched(s)) => wpc[w] # "sleep"

\* a launched worker with inputs, none of them launched, is past its wait
C5_Witness ==
    \E w \in Workers :
        /\ flow.input[processes[w][1]] # <<>>
        /\ \A s \in Range(flow.input[processes[w][1]]) : ~Launched(s)
        /\ wpc[w] = "staging"

(***************************************************************************)
(* C6: once the workers are being started, every step that changes an      *)
(* entry of active[] or error[] is a step of a worker of that very node,   *)
(* and not a step of the parent.                                           *)
(***************************************************************************)
C6_OwnEntriesOnly ==
    [][WorkersStarted =>
          \A k \in DOMAIN active :
              (active'[k] # active[k] \/ error'[k] # error[k]) =>
                  /\ ppc' = ppc /\ pcur' = pcur
                  /\ \E w \in Workers : wpc'[w] # wpc[w] /\ NodeKey(w) = k]_vars

\* index 1 of a step has recorded its failure while index 0 is still running
C6_Witness ==
    \E w \in Workers, v \in Workers :
        /\ processes[w][1] = processes[v][1]
        /\ processes[w][2] = 1 /\ processes[v][2] = 0
        /\ wpc[w] = "exited" /\ error[NodeKey(w)] = 1
        /\ wpc[v] = "exec" /\ error[NodeKey(v)] = 0 /\ active[NodeKey(v)] = 1

(***************************************************************************)
(* C7 as claimed: the process list holds exactly one process for every     *)
(* index of every launched step and none for any other node.               *)
(***************************************************************************)
C7_OneProcessPerNode ==
    WorkersStarted =>
        \A s \in Range(flow.steps) : \A i \in 0..MaxNproc :
            Cardinality({w \in Workers : processes[w] = <<s, i>>})
                = IF Launched(s) /\ i < flow.nproc[s] THEN 1 ELSE 0

(***************************************************************************)
(* C8: every worker of a source step eventually either is Done with the    *)
(* active and error flags of its node at 0, or a worker of its node has    *)
(* failed.                                                                 *)
(***************************************************************************)
NodeFailed(i) ==
    i \in Workers /\ \E j \in Workers : processes[j] = processes[i] /\ fail[j] # "none"

DoneClean(i) ==
    i \in Workers /\ wpc[i] = "done" /\ active[NodeKey(i)] = 0 /\ error[NodeKey(i)] = 0

IsSourceWorker(i) == i \in Workers /\ flow.input[processes[i][1]] = <<>>

C9_SoleUpstreamErrorHalts ==
    [][\A w \in Workers :
          Len(flow.input[processes[w][1]]) = 1 =>
              /\ (/\ wpc[w] = "errchk" /\ wcur'[w] = wcur[w] + 1
                  /\ error[InputKeys(flow, processes[w][1])[wcur[w]]] = 1)
                     => wpc'[w] = "errchk" /\ wacc'[w] > 0
              /\ (wpc[w] = "errchk" /\ wacc[w] > 0)
                     => \/ wpc'[w] = "errchk" /\ wacc'[w] >= wacc[w]
                        \/ wpc'[w] = "failing" /\ active'[NodeKey(w)] = 0
              /\ (wpc[w] = "failing" /\ fail[w] = "upstream")
                     => \/ wpc'[w] = "failing"
                        \/ /\ wpc'[w] = "exited"
                           /\ active'[NodeKey(w)] = 0 /\ error'[NodeKey(w)] = 1
              /\ (wpc[w] = "exited" /\ fail[w] = "upstream")
                     => wpc'[w] = "exited" /\ fail'[w] = "upstream"]_vars

\* the worker has halted on the error of its single input step
C9_Witness ==
    \E w \in Workers :
        /\ Len(flow.input[processes[w][1]]) = 1
        /\ wpc[w] = "exited" /\ fail[w] = "upstream"
        /\ active[NodeKey(w)] = 0 /\ error[NodeKey(w)] = 1

(***************************************************************************)
(* C10: a step in which a worker fails changes the position of no other    *)
(* worker; and every worker eventually is Done unless a worker of its own  *)
(* node or of a step it depends on has failed, whatever fails elsewhere.   *)
(***************************************************************************)
ConeFailed(i) ==
    i \in Workers /\ \E j \in Workers : processes[j][1] \in Cone(processes[i][1]) /\ fail[j] # "none"

IsDone(i) == i \in Workers /\ wpc[i] = "done"

C10_FailureIsLocal ==
    /\ [][\A w \in Workers :
             (fail[w] = "none" /\ fail'[w] # "none") =>
                 \A v \in Workers \ {w} : wpc'[v] = wpc[v] /\ fail'[v] = fail[v]]_vars
    /\ \A i \in 1..MaxProcs :
          (i \in Workers) ~> (ConeFailed(i) \/ IsDone(i))

\* a worker is Done although a worker of a step it does not depend on failed
C10_Witness ==
    \E i \in Workers, j \in Workers :
        /\ wpc[j] = "exited"
        /\ processes[j][1] \notin Cone(processes[i][1])
        /\ wpc[i] = "done" /\ error[NodeKey(i)] = 0

(***************************************************************************)
(* C11 as claimed: once run() has passed its check on a local run, it      *)
(* eventually returns with every worker terminated and every active flag   *)
(* at 0.  A worker that ends on an uncaught exception leaves its active    *)
(* flag set, so this fails.                                                *)
(***************************************************************************)
RunOver ==
    /\ ppc = "exit"
    /\ \A w \in Workers : wpc[w] \in Terminated
    /\ \A k \in DOMAIN active : active[k] = 0

C11_RunTerminates == (ppc = "setup") ~> RunOver

(***************************************************************************)
(* C12: while no worker of a node has failed, the active flag of the node  *)
(* is 0 only when its output manifest is written, and its error flag is 0. *)
(***************************************************************************)
C12_ManifestBeforeInactive ==
    \A w \in Workers :
        ~NodeFailed(w) =>
            /\ active[NodeKey(w)] = 0 => NodeKey(w) \in manifest
            /\ error[NodeKey(w)] = 0

\* a worker is staging after it saw its launched input node, Done, inactive
C12_Witness ==
    \E w \in Workers, v \in Workers :
        /\ processes[w][1] \in Range(flow.input[processes[v][1]])
        /\ wpc[w] = "done" /\ fail[w] = "none"
        /\ active[NodeKey(w)] = 0 /\ NodeKey(w) \in manifest
        /\ wpc[v] = "staging"

\* no other process runs the same node
SoleWorker(w) == \A v \in Workers \ {w} : processes[v] # processes[w]

(***************************************************************************)
(* C13: a worker whose tool command returned a non-zero status is on the   *)
(* failure path only: its active flag is 0, its error flag is 1 once it    *)
(* has exited, it is never in Postprocessing or beyond, and (being the     *)
(* only process of its node) its output manifest is not written.           *)
(***************************************************************************)
C13_CommandFailureIsFatal ==
    \A w \in Workers :
        fail[w] = "exec" =>
            /\ wpc[w] \in {"failing", "exited"}
            /\ active[NodeKey(w)] = 0
            /\ wpc[w] = "exited" => error[NodeKey(w)] = 1
            /\ SoleWorker(w) => NodeKey(w) \notin manifest

\* a worker has exited on the non-zero status of its command
C13_Witness ==
    \E w \in Workers :
        /\ fail[w] = "exec" /\ wpc[w] = "exited"
        /\ active[NodeKey(w)] = 0 /\ error[NodeKey(w)] = 1
        /\ NodeKey(w) \notin manifest

(***************************************************************************)
(* C14: a worker whose post_process reported a failure (its command had    *)
(* returned status 0) is on the failure path only: active flag 0, error    *)
(* flag 1 once it has exited, and no output manifest written by it.        *)
(***************************************************************************)
C14_PostprocessFailureIsFatal ==
    \A w \in Workers :
        fail[w] = "post" =>
            /\ wpc[w] \in {"failing", "exited"}
            /\ active[NodeKey(w)] = 0
            /\ wpc[w] = "exited" => error[NodeKey(w)] = 1
            /\ SoleWorker(w) => NodeKey(w) \notin manifest

\* a worker has exited on the failure reported by post_process
C14_Witness ==
    \E w \in Workers :
        /\ fail[w] = "post" /\ wpc[w] = "exited"
        /\ active[NodeKey(w)] = 0 /\ error[NodeKey(w)] = 1
        /\ NodeKey(w) \notin manifest

(***************************************************************************)
(* C15 as claimed: the index select() returns for Staging has the minimum  *)
(* score among the indices of every input step.  select() returns index 0  *)
(* whatever the scores, so this fails.                                     *)
(***************************************************************************)
C15_SelectsMinimumScore ==
    call = "select" =>
        \A i \in 1..Len(ret.steps) :
            \A j \in 0..(gflow.nproc[ret.steps[i]] - 1) :
                score(ret.steps[i], ret.num) <= score(ret.steps[i], j)

\* the sum over a set of metrics of value times weight, 1.0 (two halves)
\* standing for an undeclared weight
RECURSIVE WeightedSum(_, _, _)
WeightedSum(M, vals, wt) ==
    IF M = {} THEN 0
    ELSE LET m == CHOOSE x \in M : TRUE
         IN (IF m \in DOMAIN wt THEN vals[m] * wt[m] ELSE vals[m] * 2)
            + WeightedSum(M \ {m}, vals, wt)

\* area = 2.0 weighted 0.5, power = 1.0 without weight
ScoreExample ==
    /\ metric[Key(arg.step, arg.index)] = [m \in {"area", "power"} |-> IF m = "area" THEN 2 ELSE 1]
    /\ weight[arg.step] = [m \in {"area"} |-> 1]

(***************************************************************************)
(* C16: score(step, index) is the sum over the declared metrics of value   *)
(* times weight, an undeclared weight counting as 1.0; with area = 2.0     *)
(* weighted 0.5 and power = 1.0 unweighted it is 2.0 (four halves).        *)
(***************************************************************************)
C16_ScoreIsWeightedSum ==
    call = "score" =>
        /\ ret.num = WeightedSum({"area", "power"}, metric[Key(arg.step, arg.index)],
                                 weight[arg.step])
        /\ ScoreExample => ret.num = 4

\* score() was called on the example and returned 2.0
C16_Witness == call = "score" /\ ScoreExample /\ ret.num = 4

\* the diamond A -> B, B -> C, A -> D, C -> D, one index per step
Diamond ==
    /\ gflow.steps = <<"A", "B", "C", "D">>
    /\ gflow.input = [s \in {"A", "B", "C", "D"} |->
                         IF s = "B" THEN <<"A">>
                         ELSE IF s = "C" THEN <<"B">>
                         ELSE IF s = "D" THEN <<"A", "C">>
                         ELSE <<>>]
    /\ \A s \in {"A", "B", "C", "D"} : gflow.nproc[s] = 1

C18_StepsAfterInputs ==
    (call = "getsteps" /\ Acyclic(gflow)) =>
        /\ ~ret.raised
        /\ \A i \in 1..Len(ret.steps) : \A j \in 1..Len(ret.steps) :
               ret.steps[i] \in Range(gflow.input[ret.steps[j]]) => i < j

(***************************************************************************)
(* C19 as claimed: on a flow graph with a cycle getsteps() ends with an    *)
(* error.  A cycle that is not entered over first inputs goes unnoticed    *)
(* and getsteps() returns a list, so this fails.                           *)
(***************************************************************************)
C19_CycleRaises ==
    (call = "getsteps" /\ ~Acyclic(gflow)) => ret.raised

\* the type of the leaf cell a key sequence names
TypeOfPath(keys) ==
    CASE keys = <<"quiet">> -> "bool"
      [] keys \in {<<"jobid">>, <<"flowgraph", "syn", "nproc">>,
                   <<"flowgraph", "place", "nproc">>} -> "int"
      [] keys = <<"flowgraph", "syn", "weight", "area">> -> "float"
      [] keys \in {<<"steplist">>, <<"flowgraph", "syn", "input">>} -> "[str]"
      [] OTHER -> "str"

\* a value of the type itself, or for a sequence type one item or a list of items
Representable(T, v) ==
    IF v.k = "list"
    THEN IsListType(T) /\ \A i \in 1..Len(v.l) : v.l[i].k = BaseType(T)
    ELSE v.k = BaseType(T)

\* the typed value: a bare item of a sequence type becomes a one-item list
Coerced(T, v) == IF IsListType(T) /\ v.k # "list" THEN PyList(<<v>>) ELSE v

(***************************************************************************)
(* C20 as claimed: a get() that follows a set() of a representable value   *)
(* on the same leaf cell returns that value, typed.  set() stores          *)
(* str(True), that is 'True', and get() compares with 'true', so a bool    *)
(* parameter set to True reads back False, and this fails.                 *)
(***************************************************************************)
C20_GetAfterSet ==
    [][(/\ call = "set" /\ call' = "get"
        /\ arg.keys \in LeafPaths /\ arg'.keys = arg.keys
        /\ Representable(TypeOfPath(arg.keys), arg.val))
           => (/\ ~ret'.raised
               /\ ret'.val = Coerced(TypeOfPath(arg.keys), arg.val))]_vars

\* what get(*keys) gives on the dictionary d: whether it raises, and the value
Read(d, keys) ==
    LET r == Search(d, keys, PyNone, "get") IN [raised |-> r.raised, val |-> r.val]

\* the step is a call of set() or add() on a leaf cell of a scalar type
WritesScalar(mode) ==
    /\ call' = mode
    /\ arg'.keys \in LeafPaths
    /\ ~IsListType(LeafAt(cfg, arg'.keys).type)

(***************************************************************************)
(* C21: a set() of a list on a leaf cell of a scalar type sets chip.error, *)
(* raises no exception, and leaves get() of the leaf cell giving what it   *)
(* gave before the call.                                                   *)
(***************************************************************************)
C21_ListOnScalarRejected ==
    [][(WritesScalar("set") /\ arg'.val.k = "list")
          => (/\ chiperror' = 1
              /\ ~ret'.raised
              /\ Read(cfg', arg'.keys) = Read(cfg, arg'.keys))]_vars

C21_Witness ==
    /\ call = "set"
    /\ arg.keys = <<"jobid">>
    /\ arg.val.k = "list"
    /\ chiperror = 1
    /\ ~ret.raised
    /\ Read(cfg, arg.keys) = [raised |-> FALSE, val |-> PyInt(0)]

(***************************************************************************)
(* C22: an add() of any value on a leaf cell of a scalar type sets         *)
(* chip.error, raises no exception, and leaves get() of the leaf cell      *)
(* giving what it gave before the call.                                    *)
(***************************************************************************)
C22_AddOnScalarRejected ==
    [][WritesScalar("add")
          => (/\ chiperror' = 1
              /\ ~ret'.raised
              /\ Read(cfg', arg'.keys) = Read(cfg, arg'.keys))]_vars

C22_Witness ==
    /\ call = "add"
    /\ arg.keys = <<"flowgraph", "syn", "nproc">>
    /\ arg.val = PyInt(MaxInt)
    /\ chiperror = 1
    /\ ~ret.raised
    /\ Read(cfg, arg.keys) = [raised |-> FALSE, val |-> PyInt(1)]

\* the position of the first key of a key sequence that is not in the
\* dictionary reached so far while that dictionary has no 'default' either;
\* 0 when there is no such key
RECURSIVE UnknownAt(_, _, _)
UnknownAt(d, keys, i) ==
    IF i > Len(keys) THEN 0
    ELSE IF keys[i] \notin DOMAIN d
         THEN IF "default" \in DOMAIN d
              THEN UnknownAt(d["default"], keys, i + 1)
              ELSE i
         ELSE UnknownAt(d[keys[i]], keys, i + 1)

(***************************************************************************)
(* C23 as claimed: a get() on a key sequence with a key that is neither in *)
(* the dictionary nor covered by a 'default' sets chip.error and raises no *)
(* exception, whichever key of the sequence it is.  Only the last key is   *)
(* looked up under a test; a key before the last is instanced from         *)
(* cfg['default'] without one, and that raises KeyError, so this fails.    *)
(***************************************************************************)
C23_UnknownKeyRecorded ==
    [][(call' = "get" /\ UnknownAt(cfg, arg'.keys, 1) # 0)
          => (chiperror' = 1 /\ ~ret'.raised)]_vars

(***************************************************************************)
(* C24 as claimed: no key sequence that getkeys() returned, called with    *)
(* keys or with none, holds the key 'default'.  Called with keys, getkeys  *)
(* removes 'default' from the keys it found; called with none it returns   *)
(* what _allkeys collected, and _allkeys walks into 'default' as into any  *)
(* other key, so this fails.                                               *)
(***************************************************************************)
C24_NoDefaultInKeys ==
    (call = "getkeys" /\ ~ret.raised)
        => \A keys \in ret.keys : "default" \notin Range(keys)

\* the dictionary 'new' is the dictionary 'proto' but for the leaf cell the
\* keys name, which has the fields of the one in 'proto', 'value' aside, and
\* for the keys on the way that 'new' has from the 'default' next to them
RECURSIVE CopyButLeaf(_, _, _)
CopyButLeaf(new, proto, keys) ==
    LET from == IF keys[1] \in DOMAIN proto THEN proto[keys[1]] ELSE proto["default"]
    IN /\ DOMAIN new = DOMAIN proto \cup {keys[1]}
       /\ \A k \in DOMAIN proto \ {keys[1]} : new[k] = proto[k]
       /\ IF Len(keys) > 1
          THEN CopyButLeaf(new[keys[1]], from, Tail(keys))
          ELSE /\ DOMAIN new[keys[1]] = DOMAIN from \cup {"value"}
               /\ \A k \in DOMAIN from \ {"value", "defvalue"} : new[keys[1]][k] = from[k]

\* the value a leaf cell of type T that held 'old' holds after the write
Written(mode, T, old, val) ==
    LET items == IF val.k = "list" THEN val.l ELSE <<PyStr(PyStrOf(val))>>
    IN CASE mode = "set" /\ ~IsListType(T) /\ val.k # "list" -> PyStr(PyStrOf(val))
         [] mode = "set" /\ IsListType(T) -> PyList(items)
         [] mode = "add" /\ IsListType(T) -> PyList(old.l \o items)
         [] OTHER -> old

(***************************************************************************)
(* C25: a set() or add() on a leaf cell under a key of 'flowgraph' that is *)
(* not there yet makes the key a copy of flowgraph's 'default' in which    *)
(* the leaf cell holds what was written; 'default' and the keys that were  *)
(* there before are as they were.                                          *)
(***************************************************************************)
C25_WriteInstancesDefault ==
    [][(/\ call' \in {"set", "add"}
        /\ arg'.keys \in LeafPaths
        /\ arg'.keys[1] = "flowgraph"
        /\ arg'.keys[2] \notin DOMAIN cfg.flowgraph)
          => (/\ ~ret'.raised
              /\ \A k \in DOMAIN cfg.flowgraph :
                    k \in DOMAIN cfg'.flowgraph /\ cfg'.flowgraph[k] = cfg.flowgraph[k]
              /\ CopyButLeaf(cfg'.flowgraph[arg'.keys[2]], cfg.flowgraph["default"],
                             SubSeq(arg'.keys, 3, Len(arg'.keys)))
              /\ Stored(LeafAt(cfg', arg'.keys))
                    = Written(call', LeafAt(cfg, arg'.keys).type,
                              Stored(LeafAt(cfg, arg'.keys)), arg'.val))]_vars

C25_Witness ==
    /\ call = "add"
    /\ arg.keys = <<"flowgraph", "syn", "input">>
    /\ arg.val = PyStr("syn")
    /\ DOMAIN cfg.flowgraph = {"default", "place", "syn"}
    /\ Stored(cfg.flowgraph["syn"]["input"]) = PyList(<<PyStr("syn")>>)
    /\ Stored(cfg.flowgraph["default"]["input"]) = PyList(<<>>)
    /\ Stored(cfg.flowgraph["place"]["nproc"]) = PyStr(Str(MaxInt))

\* get() of the leaf cell gives a value of the type of the leaf cell, or None
ReadsTyped(d, keys) ==
    /\ ~Read(d, keys).raised
    /\ \/ Read(d, keys).val = PyNone
       \/ schema_typecheck(LeafAt(d, keys), Read(d, keys).val)

(***************************************************************************)
(* C26 as claimed: after every set() and add(), each leaf cell has the     *)
(* type it has in the schema and a value of that type, and a call with a   *)
(* value the type check refuses leaves the value of the leaf cell as it    *)
(* was.  The type check only sets chip.error; the value is converted and   *)
(* stored all the same, so this fails.                                     *)
(***************************************************************************)
C26_ValuesStayTyped ==
    [][(call' \in {"set", "add"} /\ ~ret'.raised)
          => (/\ \A keys \in LeafPaths :
                    /\ LeafAt(cfg', keys).type = LeafAt(Schema0, keys).type
                    /\ ReadsTyped(cfg', keys)
              /\ (arg'.keys \in LeafPaths
                  /\ ~schema_typecheck(LeafAt(cfg, arg'.keys), arg'.val))
                    => Stored(LeafAt(cfg', arg'.keys)) = Stored(LeafAt(cfg, arg'.keys)))]_vars

(***************************************************************************)
(* C27 as claimed: prune(merge(t, t)) equals prune(t), for the dictionary  *)
(* t of the chip.  merge reads each leaf cell of t with get(), and get()   *)
(* raises on a value that is not of the type of the leaf cell, which a     *)
(* refused set() has stored all the same; then merge(t, t) raises and      *)
(* there is nothing to prune, so this fails.                               *)
(***************************************************************************)
C27_PruneOfSelfMerge ==
    (call = "merge" /\ arg.overlay = arg.base)
        => (~ret.raised /\ prune(ret.tree, cfg) = prune(arg.base, cfg))

\* a dictionary with nothing left for prune to remove
RECURSIVE Pruned(_)
Pruned(d) ==
    \A k \in DOMAIN d :
        /\ k # "default"
        /\ IF "defvalue" \in DOMAIN d[k]
           THEN /\ "help" \notin DOMAIN d[k]
                /\ "example" \notin DOMAIN d[k]
                /\ ~(InEmpty(d[k].defvalue) /\ InEmpty(Stored(d[k])))
           ELSE DOMAIN d[k] # {} /\ Pruned(d[k])

(***************************************************************************)
(* C28 as claimed: what prune returns is returned again by a prune of it,  *)
(* and holds no 'default', no 'help' or 'example' field, no leaf cell with *)
(* an empty value and an empty default value, and no empty dictionary.     *)
(* prune runs its loop maxdepth times at the top and each run removes one  *)
(* more level of what the run before emptied, so under enough keys an      *)
(* empty dictionary is left, and this fails.                               *)
(***************************************************************************)
C28_PruneIsComplete ==
    call = "prune"
        => (prune(ret.tree, cfg) = ret.tree /\ Pruned(ret.tree))

\* the key sequences of the leaf cells of a dictionary that are not in 'default'
LeafKeys(d) == {keys \in allkeys(d, <<>>) : "default" \notin Range(keys)}

(***************************************************************************)
(* C29 as claimed: merge(base, overlay) returns a dictionary in which a    *)
(* scalar leaf cell of overlay reads as it does in overlay, a list leaf    *)
(* cell of overlay reads as the items of base followed by those of         *)
(* overlay, and a leaf cell of base that overlay does not have reads as it *)
(* does in base, and leaves overlay as it was.  merge passes what get()    *)
(* returned to set(), which stores str() of it: a leaf cell with no value  *)
(* is given the text 'None', so this fails.                                *)
(***************************************************************************)
C29_MergeOverlays ==
    call = "merge"
        => /\ ~ret.raised
           /\ ret.overlay = arg.overlay
           /\ \A keys \in LeafKeys(arg.overlay) :
                 UnknownAt(arg.base, keys, 1) = 0
                    => IF IsListType(LeafAt(arg.overlay, keys).type)
                       THEN Read(ret.tree, keys)
                               = [raised |-> FALSE,
                                  val |-> PyList(Read(arg.base, keys).val.l
                                                    \o Read(arg.overlay, keys).val.l)]
                       ELSE Read(ret.tree, keys) = Read(arg.overlay, keys)
           /\ \A keys \in LeafKeys(arg.base) \ LeafKeys(arg.overlay) :
                 Read(ret.tree, keys) = Read(arg.base, keys)

\* the number of the files of a file parameter that exist
Existing(leaf) ==
    Cardinality({i \in 1..Len(Stored(leaf).l) : Stored(leaf).l[i].s \in arg.exists})

(***************************************************************************)
(* C30 as claimed: after hash() a file parameter holds no hash when the    *)
(* mode is 'off', a hash for each of its files that exist when the mode is *)
(* 'all', and under 'selective' that only if the node has touched the      *)
(* parameter.  hash() reads the mode and does nothing with it, and looks   *)
(* for a key 'filehash' in the key sequences of the leaf cells, where      *)
(* there is none, so it records no hash in any mode and this fails.        *)
(***************************************************************************)
C30_HashFollowsMode ==
    call = "hash"
        => /\ ~ret.raised
           /\ \A keylist \in FileParams :
                 Len(LeafAt(cfg, keylist).filehash.l)
                    = IF \/ Read(cfg, <<"hashmode">>).val = PyStr("all")
                         \/ /\ Read(cfg, <<"hashmode">>).val = PyStr("selective")
                            /\ keylist \in arg.touched
                      THEN Existing(LeafAt(cfg, keylist))
                      ELSE 0

(***************************************************************************)
(* C31 as claimed: after the dictionary of the chip is written without     *)
(* pruning and the file is read into a new chip, every leaf cell of the    *)
(* dictionary that has a value is in the dictionary of the new chip with   *)
(* the same type and reads the same.  readcfg passes the file to merge     *)
(* with an argument merge does not take, which raises TypeError, and with  *)
(* merge=False it does not touch the dictionary, so this fails.            *)
(***************************************************************************)
C31_ReadOfWrite ==
    (call = "readcfg" /\ arg.base = Json(cfg))
        => /\ ~ret.raised
           /\ \A keys \in LeafKeys(cfg) :
                 "value" \in DOMAIN LeafAt(cfg, keys)
                    => /\ UnknownAt(ret.tree, keys, 1) = 0
                       /\ LeafAt(ret.tree, keys).type = LeafAt(cfg, keys).type
                       /\ Read(ret.tree, keys) = Read(cfg, keys)

\* the nodes of the steps that step s depends on, directly or not
DependsOn(s) == Upstream(gflow, Range(gflow.input[s]), {})

\* every returned node comes after all returned nodes it depends on
InDependencyOrder(nodes) ==
    \A i \in 1..Len(nodes) : \A j \in 1..Len(nodes) :
        nodes[i][1] \in DependsOn(nodes[j][1]) => i < j

\* every step of the flow graph is declared after its input steps
DeclaredAfterInputs ==
    \A i \in 1..Len(gflow.steps) : \A j \in 1..Len(gflow.steps) :
        gflow.steps[i] \in Range(gflow.input[gflow.steps[j]]) => i < j

StagesAfter(pc) ==
    IF pc = "new" THEN {"poll"}
    ELSE IF pc = "poll" THEN {"sleep", "errchk"}
    ELSE IF pc = "sleep" THEN {"poll"}
    ELSE IF pc = "errchk" THEN {"staging", "failing"}
    ELSE IF pc = "staging" THEN {"setup", "failing"}
    ELSE IF pc = "setup" THEN {"check", "failing"}
    ELSE IF pc = "check" THEN {"exec", "failing", "crashed"}
    ELSE IF pc = "exec" THEN {"post", "failing"}
    ELSE IF pc = "post" THEN {"save", "failing", "crashed"}
    ELSE IF pc = "save" THEN {"clear", "crashed"}
    ELSE IF pc = "clear" THEN {"done"}
    ELSE IF pc = "failing" THEN {"exited"}
    ELSE {}

(***************************************************************************)
(* C33 as claimed: a worker changes its position only along the order      *)
(* wait, staging, tool setup, validation check, execution, post-processing,*)
(* done; it begins the execution only from a passed validation check; and  *)
(* a failure in staging, tool setup or the validation check clears the     *)
(* active flag of the node and then sets its error flag, the worker ending *)
(* without execution.  A failure raised inside Staging ends the worker     *)
(* with the flags as they were, so this fails.                             *)
(***************************************************************************)
C33_StagesInOrder ==
    [][\A w \in Workers :
          wpc'[w] # wpc[w] =>
              /\ wpc'[w] \in StagesAfter(wpc[w])
              /\ wpc'[w] = "exec" => wpc[w] = "check" /\ fail[w] = "none"
              /\ wpc'[w] = "failing" => active'[NodeKey(w)] = 0
              /\ wpc'[w] = "exited" =>
                     active'[NodeKey(w)] = 0 /\ error'[NodeKey(w)] = 1]_vars

(***************************************************************************)
(* C34: in every state of a run a node whose error flag is 1 has its       *)
(* active flag at 0.                                                       *)
(***************************************************************************)
C34_ErrorImpliesInactive ==
    \A k \in DOMAIN error :
        error[k] = 1 => k \in DOMAIN active /\ active[k] = 0

\* a worker failed in tool setup and has written both flags while a worker
\* of another node is still active
C34_Witness ==
    \E w \in Workers, v \in Workers :
        /\ fail[w] = "setup" /\ wpc[w] = "exited"
        /\ error[NodeKey(w)] = 1 /\ active[NodeKey(w)] = 0
        /\ NodeKey(v) # NodeKey(w) /\ active[NodeKey(v)] = 1

(***************************************************************************)
(* C35: once the parent has begun to start the workers, no active flag     *)
(* changes from 0 to 1 and no error flag changes from 1 to 0, and no flag  *)
(* entry is added or removed.                                              *)
(***************************************************************************)
C35_FlagsMonotone ==
    [][WorkersStarted =>
          /\ DOMAIN active' = DOMAIN active /\ DOMAIN error' = DOMAIN error
          /\ \A k \in DOMAIN active : active[k] = 0 => active'[k] = 0
          /\ \A k \in DOMAIN error : error[k] = 1 => error'[k] = 1]_vars

\* the run is over: one node ended with its error flag set, another one
\* cleared its active flag after writing its manifest
C35_Witness ==
    /\ WorkersStarted /\ ppc = "exit"
    /\ \E w \in Workers, v \in Workers :
          /\ wpc[w] = "exited" /\ error[NodeKey(w)] = 1 /\ active[NodeKey(w)] = 0
          /\ wpc[v] = "done" /\ error[NodeKey(v)] = 0 /\ active[NodeKey(v)] = 0
          /\ NodeKey(v) \in manifest

(***************************************************************************)
(* C36 as claimed: however a worker process ended -- Done, exited on a     *)
(* reported failure, or ended by a failure raised inside Staging, hashing, *)
(* manifest writing or post-processing -- the active flag of its node is   *)
(* 0 (a worker of a downstream node polls this flag until it is 0).  A     *)
(* raised failure ends the process before any write to the flag, so this   *)
(* fails.                                                                  *)
(***************************************************************************)
C36_EveryExitClearsActive ==
    \A w \in Workers :
        wpc[w] \in Terminated => active[NodeKey(w)] = 0

(***************************************************************************)
(* C37 as claimed: the keys step + str(index) of two different nodes of    *)
(* the flow graph are different, so that once run() has filled the active  *)
(* and error dictionaries either of them has one entry per node.  The name *)
(* of a step may be the name of another step followed by digits, so this   *)
(* fails.                                                                  *)
(***************************************************************************)
C37_KeysDistinct ==
    ppc = "start" =>
        /\ \A i \in 1..Len(AllNodes(flow)) : \A j \in 1..Len(AllNodes(flow)) :
              AllNodes(flow)[i] # AllNodes(flow)[j]
                  => Key(AllNodes(flow)[i][1], AllNodes(flow)[i][2])
                         # Key(AllNodes(flow)[j][1], AllNodes(flow)[j][2])
        /\ Cardinality(DOMAIN active) = Len(AllNodes(flow))
        /\ Cardinality(DOMAIN error) = Len(AllNodes(flow))

(***************************************************************************)
(* C38 as claimed: a call of get() or getkeys(), whatever the key          *)
(* sequence, leaves the dictionary as it was: the same keys, the same      *)
(* fields, the same values.  _search copies 'default' into the dictionary  *)
(* for a key that is not there on its way down in every mode, so this      *)
(* fails.                                                                  *)
(***************************************************************************)
C38_AccessorsReadOnly ==
    [][(call' \in {"get", "getkeys"} /\ nops' = nops + 1) => cfg' = cfg]_vars

(***************************************************************************)
(* C39 as claimed: a call of set() or add() on a leaf cell leaves the type *)
(* and the defvalue of the cell and every other leaf cell of the           *)
(* dictionary as they were, also when it is the call that gives the cell   *)
(* its value field.  The value field starts as the very list defvalue is,  *)
(* and add() extends that list in place, so this fails.                    *)
(***************************************************************************)
C39_WritesOnlyValue ==
    [][(call' \in {"set", "add"} /\ nops' = nops + 1 /\ arg'.keys \in LeafPaths)
          => /\ LeafAt(cfg', arg'.keys).type = LeafAt(cfg, arg'.keys).type
             /\ LeafAt(cfg', arg'.keys).defvalue = LeafAt(cfg, arg'.keys).defvalue
             /\ \A keys \in allkeys(cfg, <<>>) \ {arg'.keys} :
                   /\ keys \in allkeys(cfg', <<>>)
                   /\ LeafAt(cfg', keys) = LeafAt(cfg, keys)]_vars

====
